---- MODULE Spec2Model ----
(***************************************************************************)
(* Model of octoeb, a release helper that sequences calls to a git host's  *)
(* REST API, an issue tracker and the local git binary.                    *)
(*                                                                         *)
(* Three specifications share this module:                                 *)
(*   Spec        the GitHubAPI client against a remote repository          *)
(*   SpecGit     the on_branch context manager against a local work tree   *)
(*   SpecVersion the version validators and derivations on strings         *)
(* A Python string is a sequence of one-character strings.                 *)
(***************************************************************************)
EXTENDS Integers, Sequences, FiniteSets, TLC

VARIABLES
    \* ---- remote repository and the GitHubAPI call in progress (Spec)
    refs,        \* branch name -> SHA of its head, NoSha when absent
    releases,    \* release records of the remote, oldest first
    pushes,      \* number of pushes made by other people so far
    op,          \* the operation in progress
    pc,          \* its position
    args,        \* its arguments
    loc,         \* its local variables
    reqs,        \* HTTP requests it has issued, in order
    outcome,     \* how it ended
    releases0,   \* the release records when the operation started
    refs0,       \* the branches that existed when the operation started
    \* ---- local work tree and the on_branch invocation (SpecGit)
    head,        \* branch checked out in the work tree
    dirty,       \* the work tree has uncommitted changes
    stash,       \* the stash list, newest first
    gpc,         \* position inside on_branch
    gloc,        \* on_branch's local variables
    gitlog,      \* git commands issued, in order
    gout,        \* how the with-statement ended
    \* ---- version functions (SpecVersion)
    version,     \* the string under test
    fn,          \* the function applied
    varg,        \* the argument it was given: the string, or None
    vlatest,     \* what latest_prerelease() answered, where it is asked
    result,      \* what the function returned or raised
    \* ---- one invocation of the command line (SpecArgs, SpecCli)
    command,     \* the command and what it was invoked with
    cpc,         \* position inside the command
    cloc,        \* the command's local variables
    trace,       \* what the command has done so far, in order
    exit         \* the exit status of the process

apivars == <<refs, releases, pushes, op, pc, args, loc, reqs, outcome,
             releases0, refs0>>
gitvars == <<head, dirty, stash, gpc, gloc, gitlog, gout>>
vervars == <<version, fn, varg, vlatest, result>>
clivars == <<command, cpc, cloc, trace, exit>>
vars == <<apivars, gitvars, vervars, clivars>>

-----------------------------------------------------------------------------
(* Bounds *)

MaxArgLen == 4       \* longest argument typed after -v or -t in SpecArgs
MaxFaults == 1       \* failing calls to git, tracker and chat in a run of SpecCli
MaxLog == 3          \* lines of the git log given to changelog in SpecChangelog
MaxLen == 7          \* longest input string of SpecVersion
MaxPushes == 1       \* pushes by other people during a run of Spec
MaxSql == 3          \* longest SQL text, in words, of SpecMigrations
MaxStash == 1        \* stash entries present before on_branch is entered
MaxTickets == 2      \* ticket ids a changelog yields in SpecCli

-----------------------------------------------------------------------------
(* Strings *)

None == <<"None">>   \* Python's None: a value that is no string
Digits == {"0", "1", "2", "3", "4", "5", "6", "7", "8", "9"}
NL == "\n"

IsDigits(s) == \A i \in 1..Len(s) : s[i] \in Digits

Front(s) == SubSeq(s, 1, Len(s) - 1)

\* str.startswith
StartsWith(s, p) == Len(p) <= Len(s) /\ SubSeq(s, 1, Len(p)) = p

\* str.split('.')
RECURSIVE Split(_)
Split(s) ==
    IF \A i \in 1..Len(s) : s[i] # "."
    THEN <<s>>
    ELSE LET i == CHOOSE j \in 1..Len(s) :
                      s[j] = "." /\ \A k \in 1..(j - 1) : s[k] # "."
         IN  <<SubSeq(s, 1, i - 1)>> \o Split(SubSeq(s, i + 1, Len(s)))

\* '.'.join
RECURSIVE Join(_)
Join(parts) ==
    IF parts = <<>> THEN <<>>
    ELSE IF Len(parts) = 1 THEN parts[1]
    ELSE parts[1] \o <<".">> \o Join(Tail(parts))

\* list[a:b] for 0 <= a <= b
Slice(l, a, b) == SubSeq(l, a + 1, IF b < Len(l) THEN b ELSE Len(l))

-----------------------------------------------------------------------------
(* octoeb/utils/formatting.py and the validators of octoeb/cli.py *)

extract_major_version_mut(v) == Join(Slice(Split(v), 0, 5))

extract_major_version(v) == Join(Slice(Split(v), 0, 4))

extract_year_week_version(v) ==
    IF StartsWith(v, <<"0">>)
    THEN Join(Slice(Split(v), 2, 4))
    ELSE Join(Slice(Split(v), 0, 2))

extract_release_branch_version(v) ==
    LET version_nums == Slice(Split(v), 0, 4)
    IN  Join([version_nums EXCEPT ![Len(version_nums)] = <<"0", "1">>])

\* one repetition of (?:\.?\d+)
ReGroup(g) ==
    LET d == IF g # <<>> /\ g[1] = "." THEN Tail(g) ELSE g
    IN  d # <<>> /\ IsDigits(d)

\* s is exactly k repetitions of (?:\.?\d+)
RECURSIVE ReGroups(_, _)
ReGroups(s, k) ==
    IF k = 0 THEN s = <<>>
    ELSE \E n \in 1..Len(s) :
            /\ ReGroup(SubSeq(s, 1, n))
            /\ ReGroups(SubSeq(s, n + 1, Len(s)), k - 1)

\* re.match(r'^(?:\.?\d+){4,5}$', s): $ also matches before a final newline
VersionRe(s) ==
    LET ends == IF s # <<>> /\ s[Len(s)] = NL THEN {s, Front(s)} ELSE {s}
    IN  \E u \in ends : ReGroups(u, 4) \/ ReGroups(u, 5)

Returned(v) == [type |-> "return", msg |-> "", value |-> v]
Raised(t, m) == [type |-> t, msg |-> m, value |-> <<>>]

validate_version(v) ==
    IF v = None THEN Raised("TypeError", "expected string")
    ELSE IF VersionRe(v) THEN Returned(<<"True">>)
    ELSE Raised("Exception", "Invalid version number")

validate_version_arg(v) ==
    IF v = None THEN Raised("BadParameter", "Version number is required")
    ELSE IF VersionRe(v) THEN Returned(v)
    ELSE Raised("BadParameter", "Invalid version format")

\* latest_prerelease() returns None or the newest pre-release record
NoPrerelease == [found |-> FALSE, tag_name |-> <<>>]
Prerelease(t) == [found |-> TRUE, tag_name |-> t]

validate_version_arg_or_latest_prerelease(v, latest) ==
    IF v = None /\ ~latest.found
    THEN Raised("AttributeError", "'NoneType' object has no attribute 'get'")
    ELSE LET w == IF v = None THEN latest.tag_name ELSE v
         IN  IF VersionRe(w) THEN Returned(w)
             ELSE Raised("BadParameter", "Invalid version format")

-----------------------------------------------------------------------------
(* The remote repository, as the GitHub REST API presents it *)

Shas == {"s1", "s2"}
NoSha == "none"

Master == <<"master">>
Develop == <<"develop">>

V_2_15_3_1 == <<"2", ".", "1", "5", ".", "3", ".", "1">>
V_2_15_4_1 == <<"2", ".", "1", "5", ".", "4", ".", "1">>
Versions == {V_2_15_3_1, V_2_15_4_1}

\* build_release_base_name(config): the configured release-branch prefix
build_release_base_name == <<"release-">>

\* build_release_name(config, version)
build_release_name(v) == build_release_base_name \o v

ReleaseBranches ==
    {build_release_name(extract_release_branch_version(v)) : v \in Versions}
Branches == {Master, Develop} \cup ReleaseBranches

HttpErrors == {401, 500}
CompareStatuses == {"diverged", "ahead", "behind", "identical"}

Response(st, b) == [status |-> st, body |-> b]
NoBody == <<>>

IndexOfTag(tag) ==
    {i \in 1..Len(releases) : releases[i].tag_name = tag}

\* GET git/refs/heads/<name>
BranchResponses(name) ==
    (IF refs[name] # NoSha
     THEN {Response(200, <<refs[name]>>)}
     ELSE {Response(404, NoBody)})
    \cup {Response(e, NoBody) : e \in HttpErrors}

\* GET releases/tags/<tag>
ReleaseResponses(tag) ==
    (IF IndexOfTag(tag) # {}
     THEN {Response(200, NoBody)}
     ELSE {Response(404, NoBody)})
    \cup {Response(e, NoBody) : e \in HttpErrors}

\* GET compare/<base>...<head>
CompareResponses(base, h) ==
    (IF refs[base] # NoSha /\ refs[h] # NoSha
     THEN {Response(200, <<c>>) : c \in CompareStatuses}
     ELSE {Response(404, NoBody)})
    \cup {Response(e, NoBody) : e \in HttpErrors}

\* GET releases/latest: the newest record that is not a pre-release
LatestReleaseResponses ==
    LET pub == {i \in 1..Len(releases) : ~releases[i].prerelease}
    IN  (IF pub # {}
         THEN {Response(200,
                 releases[CHOOSE i \in pub : \A j \in pub : j <= i].name)}
         ELSE {Response(404, NoBody)})
        \cup {Response(e, NoBody) : e \in HttpErrors}

\* POST git/refs
PostRefResponses(name) ==
    (IF refs[name] = NoSha
     THEN {Response(201, NoBody)}
     ELSE {Response(422, NoBody)})
    \cup {Response(e, NoBody) : e \in HttpErrors}

\* POST releases
PostReleaseResponses(tag) ==
    (IF IndexOfTag(tag) = {}
     THEN {Response(201, NoBody)}
     ELSE {Response(422, NoBody)})
    \cup {Response(e, NoBody) : e \in HttpErrors}

\* commit s2 is a child of commit s1
Descends(new, old) == new = old \/ (old = "s1" /\ new = "s2")

\* PATCH git/refs/heads/<name>: without force the host moves the ref only
\* to a descendant of its current commit
PatchRefResponses(name, sha, force) ==
    (IF refs[name] # NoSha /\ (force \/ Descends(sha, refs[name]))
     THEN {Response(200, <<sha>>)}
     ELSE {Response(422, NoBody)})
    \cup {Response(e, NoBody) : e \in HttpErrors}

-----------------------------------------------------------------------------
(* octoeb/utils/GitHubAPI.py *)

Exc(t, st, m) == [type |-> t, status |-> st, msg |-> m, attrs |-> {"message"}]
Ok == [type |-> "return", status |-> 0, msg |-> "", attrs |-> {}]
Pending == [type |-> "pending", status |-> 0, msg |-> "", attrs |-> {}]

\* raise GitHubAPIError('Status: {}; Message: {}'): the exception carries
\* the message text and nothing else
GitHubAPIError(st) == Exc("GitHubAPIError", st, "Status")

DuplicateBranchError == Exc("DuplicateBranchError", 0, "Branch already started.")

\* what send_request raises for a response, Ok when it returns it
send_request(resp) ==
    IF resp.status > 299 THEN GitHubAPIError(resp.status) ELSE Ok

\* a request and the answer it got
Req(m, path, x, resp) ==
    [method |-> m, path |-> path, arg |-> x,
     status |-> resp.status, body |-> resp.body]

NoLoc == [base_sha |-> NoSha, release_branch |-> NoSha, master |-> NoSha,
          compare |-> Response(0, NoBody), posted |-> <<>>]

Existing == {b \in Branches : refs[b] # NoSha}

Idle == pc \in {"idle", "done"}

Begin(o, a, p) ==
    /\ Idle
    /\ op' = o
    /\ args' = a
    /\ pc' = p
    /\ loc' = NoLoc
    /\ reqs' = <<>>
    /\ outcome' = Pending
    /\ releases0' = releases
    /\ refs0' = Existing
    /\ UNCHANGED <<refs, releases, pushes>>

Finish(e) ==
    /\ pc' = "done"
    /\ outcome' = e

\* ---- create_branch(name, base_name, from_sha) ----

Call_create_branch ==
    \E name \in ReleaseBranches, from_sha \in BOOLEAN :
      \E base_name \in (IF from_sha THEN Shas
                       ELSE ({Develop} \cup ReleaseBranches) \ {name}) :
        /\ Begin("create_branch",
                 [name |-> name, base_name |-> base_name, from_sha |-> from_sha],
                 "cb_get_branch")
        /\ UNCHANGED <<gitvars, vervars, clivars>>

\* the existence check left out
branch_is_new_mut(e) == TRUE

\* lines 184-192: try get_branch / except GitHubAPIError: pass / else: raise
branch_is_new(e) == e.type = "GitHubAPIError"

\* lines 184-198: the existence check, then the base SHA when it was given
create_branch_get_branch ==
    /\ pc = "cb_get_branch"
    /\ \E resp \in BranchResponses(args.name) :
         /\ reqs' = Append(reqs, Req("GET", "git/refs/heads", args.name, resp))
         /\ IF branch_is_new(send_request(resp))
            THEN /\ outcome' = outcome
                 /\ IF args.from_sha
                    THEN /\ loc' = [loc EXCEPT !.base_sha = args.base_name]
                         /\ pc' = "cb_post"
                    ELSE /\ loc' = loc
                         /\ pc' = "cb_get_base"
            ELSE /\ IF op = "releasefix_sync"
                    THEN pc' = "ub_patch" /\ outcome' = outcome
                    ELSE Finish(DuplicateBranchError)
                 /\ loc' = loc
    /\ UNCHANGED <<refs, releases, pushes, op, args, releases0, refs0>>
    /\ UNCHANGED <<gitvars, vervars, clivars>>

\* the base's sha read from the wrong key of the answer
base_sha_mut(base) == NoSha

\* line 196: base['object']['sha']
base_sha(base) == base[1]

\* lines 194-196
create_branch_get_base ==
    /\ pc = "cb_get_base"
    /\ \E resp \in BranchResponses(args.base_name) :
         /\ reqs' = Append(reqs, Req("GET", "git/refs/heads", args.base_name, resp))
         /\ IF send_request(resp) # Ok
            THEN /\ Finish(send_request(resp))
                 /\ loc' = loc
            ELSE /\ loc' = [loc EXCEPT !.base_sha = base_sha(resp.body)]
                 /\ pc' = "cb_post"
                 /\ outcome' = outcome
    /\ UNCHANGED <<refs, releases, pushes, op, args, releases0, refs0>>
    /\ UNCHANGED <<gitvars, vervars, clivars>>

\* lines 200-217
create_branch_post ==
    /\ pc = "cb_post"
    /\ \E resp \in PostRefResponses(args.name) :
         /\ reqs' = Append(reqs, Req("POST", "git/refs", args.name, resp))
         /\ Finish(send_request(resp))
         /\ refs' = IF resp.status = 201
                    THEN [refs EXCEPT ![args.name] = loc.base_sha]
                    ELSE refs
    /\ UNCHANGED <<releases, pushes, op, args, loc, releases0, refs0>>
    /\ UNCHANGED <<gitvars, vervars, clivars>>

\* ---- get_branch(name) ----

\* lines 144-150
get_branch_get ==
    /\ pc = "gb_get"
    /\ \E resp \in BranchResponses(args.name) :
         /\ reqs' = Append(reqs, Req("GET", "git/refs/heads", args.name, resp))
         /\ Finish(send_request(resp))
    /\ UNCHANGED <<refs, releases, pushes, op, args, loc, releases0, refs0>>
    /\ UNCHANGED <<gitvars, vervars, clivars>>

\* ---- update_branch(name, sha) ----

Call_update_branch ==
    \E name \in ReleaseBranches, sha \in Shas :
        /\ Begin("update_branch",
                 [name |-> name, base_name |-> sha, from_sha |-> TRUE],
                 "ub_patch")
        /\ UNCHANGED <<gitvars, vervars, clivars>>

\* start releasefix, "create or sync the release branch on the fork": the
\* remote is the fork and base_name the head of mainline's release branch
Call_releasefix_sync ==
    \E name \in ReleaseBranches, release_sha \in Shas :
        /\ Begin("releasefix_sync",
                 [name |-> name, base_name |-> release_sha, from_sha |-> TRUE],
                 "cb_get_branch")
        /\ UNCHANGED <<gitvars, vervars, clivars>>

\* lines 221-223: the body names the sha and nothing else, force is left
\* to the host's default
branch_info(sha) == [sha |-> sha, force |-> FALSE]

\* lines 219-232
update_branch_patch ==
    /\ pc = "ub_patch"
    /\ LET info == branch_info(args.base_name)
       IN  \E resp \in PatchRefResponses(args.name, info.sha, info.force) :
             /\ reqs' = Append(reqs, Req("PATCH", "git/refs/heads",
                                         [name |-> args.name, json |-> info],
                                         resp))
             /\ Finish(send_request(resp))
             /\ refs' = IF resp.status = 200
                        THEN [refs EXCEPT ![args.name] = info.sha]
                        ELSE refs
    /\ UNCHANGED <<releases, pushes, op, args, loc, releases0, refs0>>
    /\ UNCHANGED <<gitvars, vervars, clivars>>

\* ---- check_release_status(release_name, release_branch) ----

MustBeMerged ==
    Exc("Exception", 0, "Release must be merged into master before release")
ExpectedHotfix ==
    Exc("Exception", 0,
        "New release version does not match the current release, we expected a hotfix.")
AttributeError == Exc("AttributeError", 0, "no attribute 'response'")

\* lines 352-366: the hotfix fallback, given the answer to releases/latest
hotfix_fallback(release_name, latest) ==
    IF send_request(latest) # Ok THEN send_request(latest)
    ELSE LET release_version == extract_release_branch_version(release_name)
             name == latest.body
             raw_version ==
                 IF StartsWith(name, build_release_base_name)
                 THEN SubSeq(name, Len(build_release_base_name) + 1, Len(name))
                 ELSE name
         IN  IF extract_year_week_version(release_version)
                  # extract_year_week_version(raw_version)
             THEN ExpectedHotfix
             ELSE Ok

\* lines 340-343: the handler of GitHubAPIError reads e.response
\* "fallback" stands for leaving the handler without raising
compare_handler(e) ==
    IF "response" \notin e.attrs THEN AttributeError
    ELSE IF e.status # 404 THEN e
    ELSE Exc("fallback", 0, "")

\* 'ahead' missing from the list of unmerged statuses
check_release_status_mut(release_name, cmp, latest) ==
    IF send_request(cmp).type = "GitHubAPIError"
    THEN IF compare_handler(send_request(cmp)).type = "fallback"
         THEN hotfix_fallback(release_name, latest)
         ELSE compare_handler(send_request(cmp))
    ELSE IF cmp.body[1] \in {"diverged"}
         THEN MustBeMerged
         ELSE Ok

\* lines 335-366: what the call ends with, given the answers to the compare
\* and to releases/latest
check_release_status(release_name, cmp, latest) ==
    IF send_request(cmp).type = "GitHubAPIError"
    THEN IF compare_handler(send_request(cmp)).type = "fallback"
         THEN hotfix_fallback(release_name, latest)
         ELSE compare_handler(send_request(cmp))
    ELSE IF cmp.body[1] \in {"diverged", "ahead"}
         THEN MustBeMerged
         ELSE Ok

\* the requests the call issues for these answers
calls_latest_release(cmp) ==
    /\ send_request(cmp).type = "GitHubAPIError"
    /\ compare_handler(send_request(cmp)).type = "fallback"

check_release_status_reqs(release_branch, cmp, latest) ==
    <<Req("GET", "compare", release_branch, cmp)>>
    \o (IF calls_latest_release(cmp)
        THEN <<Req("GET", "releases/latest", <<>>, latest)>>
        ELSE <<>>)

ReleaseArgs(v) ==
    [release_name |-> v,
     release_branch |-> build_release_name(extract_release_branch_version(v))]

Call_check_release_status ==
    /\ \E v \in Versions :
         Begin("check_release_status", ReleaseArgs(v), "crs_compare")
    /\ UNCHANGED <<gitvars, vervars, clivars>>

\* the check's exception swallowed by its caller
check_passed_mut(r) == TRUE

\* line 373: create_release goes on only when the check returned
check_passed(r) == r = Ok

\* one step for the whole call
check_release_status_step ==
    /\ pc = "crs_compare"
    /\ \E cmp \in CompareResponses(Master, args.release_branch) :
        \E latest \in (IF calls_latest_release(cmp)
                        THEN LatestReleaseResponses
                        ELSE {Response(0, NoBody)}) :
         LET r == check_release_status(args.release_name, cmp, latest)
         IN  /\ reqs' = reqs \o check_release_status_reqs(args.release_branch,
                                                          cmp, latest)
             /\ loc' = [loc EXCEPT !.compare = cmp]
             /\ IF check_passed(r) /\ op # "check_release_status"
                THEN pc' = "cr_get_release" /\ outcome' = outcome
                ELSE Finish(r)
    /\ UNCHANGED <<refs, releases, pushes, op, args, releases0, refs0>>
    /\ UNCHANGED <<gitvars, vervars, clivars>>

\* ---- create_pre_release(release_name, release_branch_name, body) ----

AlreadyCreated == Exc("Exception", 0, "Release already created.")

ReleaseInfo(tag, sha, name, pre) ==
    [tag_name |-> tag, target_commitish |-> sha, name |-> name,
     body |-> "changelog", draft |-> FALSE, prerelease |-> pre]

Call_create_pre_release ==
    /\ \E v \in Versions :
         Begin("create_pre_release", ReleaseArgs(v), "cpr_get_branch")
    /\ UNCHANGED <<gitvars, vervars, clivars>>

\* line 276
create_pre_release_get_branch ==
    /\ pc = "cpr_get_branch"
    /\ \E resp \in BranchResponses(args.release_branch) :
         /\ reqs' = Append(reqs, Req("GET", "git/refs/heads", args.release_branch, resp))
         /\ IF send_request(resp) # Ok
            THEN /\ Finish(send_request(resp))
                 /\ loc' = loc
            ELSE /\ loc' = [loc EXCEPT !.release_branch = resp.body[1]]
                 /\ pc' = "cpr_get_release"
                 /\ outcome' = outcome
    /\ UNCHANGED <<refs, releases, pushes, op, args, releases0, refs0>>
    /\ UNCHANGED <<gitvars, vervars, clivars>>

\* the duplicate check left out
release_is_new_mut(e) == TRUE

\* lines 278-285 and 375-382: try get_release / except GitHubAPIError: pass
release_is_new(e) == e.type = "GitHubAPIError"

\* the duplicate check of both calls
get_release_step(here, next) ==
    /\ pc = here
    /\ \E resp \in ReleaseResponses(args.release_name) :
         /\ reqs' = Append(reqs, Req("GET", "releases/tags", args.release_name, resp))
         /\ IF release_is_new(send_request(resp))
            THEN pc' = next /\ outcome' = outcome
            ELSE Finish(AlreadyCreated)
    /\ UNCHANGED <<refs, releases, pushes, op, args, loc, releases0, refs0>>
    /\ UNCHANGED <<gitvars, vervars, clivars>>

create_pre_release_get_release == get_release_step("cpr_get_release", "cpr_post")

\* lines 287-307 and 385-405: build the record and POST it
post_release_step(here, info) ==
    /\ pc = here
    /\ \E resp \in PostReleaseResponses(args.release_name) :
         /\ reqs' = Append(reqs, Req("POST", "releases", args.release_name, resp))
         /\ loc' = [loc EXCEPT !.posted = <<info>>]
         /\ Finish(send_request(resp))
         /\ releases' = IF resp.status = 201
                        THEN Append(releases, info)
                        ELSE releases
    /\ UNCHANGED <<refs, pushes, op, args, releases0, refs0>>
    /\ UNCHANGED <<gitvars, vervars, clivars>>

create_pre_release_info ==
    ReleaseInfo(args.release_name, loc.release_branch, args.release_branch, TRUE)

create_pre_release_post == post_release_step("cpr_post", create_pre_release_info)

\* ---- create_release(release_name, release_branch, body) ----

Call_create_release ==
    /\ \E v \in Versions :
         Begin("create_release", ReleaseArgs(v), "crs_compare")
    /\ UNCHANGED <<gitvars, vervars, clivars>>

create_release_get_release == get_release_step("cr_get_release", "cr_get_master")

\* line 384
create_release_get_master ==
    /\ pc = "cr_get_master"
    /\ \E resp \in BranchResponses(Master) :
         /\ reqs' = Append(reqs, Req("GET", "git/refs/heads", Master, resp))
         /\ IF send_request(resp) # Ok
            THEN /\ Finish(send_request(resp))
                 /\ loc' = loc
            ELSE /\ loc' = [loc EXCEPT !.master = resp.body[1]]
                 /\ pc' = "cr_post"
                 /\ outcome' = outcome
    /\ UNCHANGED <<refs, releases, pushes, op, args, releases0, refs0>>
    /\ UNCHANGED <<gitvars, vervars, clivars>>

\* the record of create_pre_release copied without clearing the flag
create_release_info_mut ==
    ReleaseInfo(args.release_name, loc.master, args.release_branch, TRUE)

create_release_info ==
    ReleaseInfo(args.release_name, loc.master, args.release_branch, FALSE)

create_release_post == post_release_step("cr_post", create_release_info)

\* ---- the release command of cli.py ----

Call_release ==
    /\ \E v \in Versions : Begin("release", ReleaseArgs(v), "rel_latest_release")
    /\ UNCHANGED <<gitvars, vervars, clivars>>

\* cli.py line 810: outside any try, a failure ends the command
release_latest_release ==
    /\ pc = "rel_latest_release"
    /\ \E resp \in LatestReleaseResponses :
         /\ reqs' = Append(reqs, Req("GET", "releases/latest", <<>>, resp))
         /\ IF send_request(resp) # Ok
            THEN Finish(send_request(resp))
            ELSE pc' = "rel_on_branch" /\ outcome' = outcome
    /\ UNCHANGED <<refs, releases, pushes, op, args, loc, releases0, refs0>>
    /\ UNCHANGED <<gitvars, vervars, clivars>>

\* cli.py lines 813-818: the changelog is read from the local clone; git.log
\* raises ValueError when git fails
release_on_branch ==
    /\ pc = "rel_on_branch"
    /\ \/ pc' = "crs_compare" /\ outcome' = outcome
       \/ Finish(Exc("ValueError", 0, "Can not find the git log"))
    /\ UNCHANGED <<refs, releases, pushes, op, args, loc, reqs, releases0, refs0>>
    /\ UNCHANGED <<gitvars, vervars, clivars>>

\* ---- other people ----

\* somebody pushes to a branch of the remote
Push ==
    /\ pushes < MaxPushes
    /\ \E b \in Existing, s \in Shas :
         /\ s # refs[b]
         /\ refs' = [refs EXCEPT ![b] = s]
    /\ pushes' = pushes + 1
    /\ UNCHANGED <<releases, op, pc, args, loc, reqs, outcome, releases0, refs0>>
    /\ UNCHANGED <<gitvars, vervars, clivars>>

-----------------------------------------------------------------------------
(* Idle values of the parts a specification does not use *)

ApiIdle ==
    /\ refs = [b \in Branches |-> NoSha]
    /\ releases = <<>>
    /\ pushes = 0
    /\ op = "none"
    /\ pc = "off"
    /\ args = <<>>
    /\ loc = NoLoc
    /\ reqs = <<>>
    /\ outcome = Pending
    /\ releases0 = <<>>
    /\ refs0 = {}

GitIdle ==
    /\ head = <<>>
    /\ dirty = FALSE
    /\ stash = <<>>
    /\ gpc = "off"
    /\ gloc = <<>>
    /\ gitlog = <<>>
    /\ gout = "none"

VerIdle ==
    /\ version = <<>>
    /\ fn = "off"
    /\ varg = <<>>
    /\ vlatest = [found |-> FALSE, tag_name |-> <<>>]
    /\ result = Raised("none", "")

CliIdle ==
    /\ command = <<>>
    /\ cpc = "off"
    /\ cloc = <<>>
    /\ trace = <<>>
    /\ exit = "none"

-----------------------------------------------------------------------------
(* Spec: the GitHubAPI client against the remote *)

Init ==
    /\ refs = [b \in Branches |->
                 IF b \in {Master, Develop} THEN "s1" ELSE NoSha]
    /\ releases = <<>>
    /\ pushes = 0
    /\ op = "none"
    /\ pc = "idle"
    /\ args = <<>>
    /\ loc = NoLoc
    /\ reqs = <<>>
    /\ outcome = Pending
    /\ releases0 = <<>>
    /\ refs0 = {Master, Develop}
    /\ GitIdle
    /\ VerIdle
    /\ CliIdle

Next ==
    \/ Call_create_branch
    \/ create_branch_get_branch
    \/ create_branch_get_base
    \/ create_branch_post
    \/ Call_check_release_status
    \/ check_release_status_step
    \/ Call_create_pre_release
    \/ create_pre_release_get_branch
    \/ create_pre_release_get_release
    \/ create_pre_release_post
    \/ Call_create_release
    \/ create_release_get_release
    \/ create_release_get_master
    \/ create_release_post
    \/ Call_release
    \/ release_latest_release
    \/ release_on_branch
    \/ Push

Spec == Init /\ [][Next]_vars

TypeOK == pc \in {"idle", "done", "cb_get_branch", "cb_get_base", "cb_post",
                  "crs_compare", "cpr_get_branch", "cpr_get_release",
                  "cpr_post", "cr_get_release", "cr_get_master", "cr_post",
                  "rel_latest_release", "rel_on_branch"}

-----------------------------------------------------------------------------
(* SpecSync: update_branch and the sync step of start releasefix against   *)
(* the fork                                                                *)

InitSync ==
    /\ refs \in [Branches -> Shas \cup {NoSha}]
    /\ refs[Master] # NoSha
    /\ refs[Develop] # NoSha
    /\ releases = <<>>
    /\ pushes = 0
    /\ op = "none"
    /\ pc = "idle"
    /\ args = <<>>
    /\ loc = NoLoc
    /\ reqs = <<>>
    /\ outcome = Pending
    /\ releases0 = <<>>
    /\ refs0 = {}
    /\ GitIdle
    /\ VerIdle
    /\ CliIdle

NextSync ==
    \/ Call_update_branch
    \/ Call_releasefix_sync
    \/ create_branch_get_branch
    \/ create_branch_post
    \/ update_branch_patch

SpecSync == InitSync /\ [][NextSync]_vars

-----------------------------------------------------------------------------
(* SpecGit: octoeb/utils/git.py, on_branch against the local work tree *)

LocalBranches == {"feature-EB-1", "master", "release-2.15.3.01"}

Git(cmd, x) == [cmd |-> cmd, arg |-> x]
Yield == Git("yield", "")

InitGit ==
    /\ head \in LocalBranches
    /\ dirty \in BOOLEAN
    /\ stash \in UNION {[1..n -> {"earlier"}] : n \in 0..MaxStash}
    /\ gpc = "idle"
    /\ gloc = [name |-> "", org_branch |-> "", stash_ref |-> ""]
    /\ gitlog = <<>>
    /\ gout = "none"
    /\ ApiIdle
    /\ VerIdle
    /\ CliIdle

\* with git.on_branch(name):
on_branch_call ==
    /\ gpc = "idle"
    /\ \E name \in LocalBranches :
         gloc' = [name |-> name, org_branch |-> "", stash_ref |-> ""]
    /\ gpc' = "rev_parse"
    /\ UNCHANGED <<head, dirty, stash, gitlog, gout>>
    /\ UNCHANGED <<apivars, vervars, clivars>>

\* lines 225-228: check_output raises CalledProcessError when git fails
on_branch_rev_parse ==
    /\ gpc = "rev_parse"
    /\ gitlog' = Append(gitlog, Git("rev-parse", "HEAD"))
    /\ \/ /\ gloc' = [gloc EXCEPT !.org_branch = head]
          /\ gpc' = "stash_create"
          /\ gout' = gout
       \/ /\ gloc' = gloc
          /\ gpc' = "done"
          /\ gout' = "CalledProcessError"
    /\ UNCHANGED <<head, dirty, stash>>
    /\ UNCHANGED <<apivars, vervars, clivars>>

\* lines 232-233: stash create prints a ref only when there are changes
on_branch_stash_create ==
    /\ gpc = "stash_create"
    /\ gitlog' = Append(gitlog, Git("stash create", ""))
    /\ \/ /\ gloc' = [gloc EXCEPT !.stash_ref = IF dirty THEN "ref" ELSE ""]
          /\ gpc' = IF dirty THEN "stash_store" ELSE "checkout"
          /\ gout' = gout
       \/ /\ gloc' = gloc
          /\ gpc' = "done"
          /\ gout' = "CalledProcessError"
    /\ UNCHANGED <<head, dirty, stash>>
    /\ UNCHANGED <<apivars, vervars, clivars>>

\* lines 235-238
on_branch_stash_store ==
    /\ gpc = "stash_store"
    /\ gitlog' = gitlog \o <<Git("stash store", gloc.stash_ref),
                              Git("reset --hard", "")>>
    /\ stash' = <<gloc.stash_ref>> \o stash
    /\ dirty' = FALSE
    /\ gpc' = "checkout"
    /\ UNCHANGED <<head, gloc, gout>>
    /\ UNCHANGED <<apivars, vervars, clivars>>

\* line 241: subprocess.call, a failed checkout goes unnoticed
on_branch_checkout ==
    /\ gpc = "checkout"
    /\ gitlog' = Append(gitlog, Git("checkout", gloc.name))
    /\ head' \in {gloc.name, head}
    /\ gpc' = "pull"
    /\ UNCHANGED <<dirty, stash, gloc, gout>>
    /\ UNCHANGED <<apivars, vervars, clivars>>

\* line 243
on_branch_pull ==
    /\ gpc = "pull"
    /\ gitlog' = Append(gitlog, Git("pull", gloc.name))
    /\ gpc' = "yield"
    /\ UNCHANGED <<head, dirty, stash, gloc, gout>>
    /\ UNCHANGED <<apivars, vervars, clivars>>

\* line 246: the body of the with-statement runs and returns
block_returns ==
    /\ gpc = "yield"
    /\ gitlog' = Append(gitlog, Yield)
    /\ gpc' = "checkout_org"
    /\ UNCHANGED <<head, dirty, stash, gloc, gout>>
    /\ UNCHANGED <<apivars, vervars, clivars>>

\* line 246: the body raises; the exception is thrown into the generator at
\* the yield, which is inside no try statement, so the generator ends there
block_raises ==
    /\ gpc = "yield"
    /\ gitlog' = Append(gitlog, Yield)
    /\ gpc' = "done"
    /\ gout' = "exception"
    /\ UNCHANGED <<head, dirty, stash, gloc>>
    /\ UNCHANGED <<apivars, vervars, clivars>>

\* the pop made without looking at stash_ref
pops_stash_mut(stash_ref) == TRUE

\* line 252: if stash_ref
pops_stash(stash_ref) == stash_ref # ""

\* lines 248-250
on_branch_checkout_org ==
    /\ gpc = "checkout_org"
    /\ gitlog' = Append(gitlog, Git("checkout", gloc.org_branch))
    /\ head' \in {gloc.org_branch, head}
    /\ IF pops_stash(gloc.stash_ref)
       THEN gpc' = "stash_pop" /\ gout' = gout
       ELSE gpc' = "done" /\ gout' = "return"
    /\ UNCHANGED <<dirty, stash, gloc>>
    /\ UNCHANGED <<apivars, vervars, clivars>>

\* lines 252-253: a pop that conflicts leaves the entry on the stash list
on_branch_stash_pop ==
    /\ gpc = "stash_pop"
    /\ gitlog' = Append(gitlog, Git("stash pop", ""))
    /\ \/ stash # <<>> /\ stash' = Tail(stash) /\ dirty' = TRUE
       \/ stash' = stash /\ dirty' = dirty
    /\ gpc' = "done"
    /\ gout' = "return"
    /\ UNCHANGED <<head, gloc>>
    /\ UNCHANGED <<apivars, vervars, clivars>>

NextGit ==
    \/ on_branch_call
    \/ on_branch_rev_parse
    \/ on_branch_stash_create
    \/ on_branch_stash_store
    \/ on_branch_checkout
    \/ on_branch_pull
    \/ block_returns
    \/ block_raises
    \/ on_branch_checkout_org
    \/ on_branch_stash_pop

SpecGit == InitGit /\ [][NextGit]_vars

-----------------------------------------------------------------------------
(* SpecUpdate: the update command of octoeb/cli.py against the work tree *)

\* branch names as the command sees them: words separated by "-"
Feature1 == <<"feature", "-", "EB", "-", "1">>
Hotfix1 == <<"hotfix", "-", "EB", "-", "2">>
Release1 == <<"release", "-", "2.15.3.01">>
UpdateBranches == {Feature1, Hotfix1, Release1, Master, Develop}

\* the --base option: absent, or a branch name
NoBase == <<>>
BaseOptions == {NoBase, Develop, Release1}

\* current_branch.split('-')[0]
branch_type(b) ==
    IF \A i \in 1..Len(b) : b[i] # "-"
    THEN b
    ELSE LET i == CHOOSE j \in 1..Len(b) :
                      b[j] = "-" /\ \A k \in 1..(j - 1) : b[k] # "-"
         IN  SubSeq(b, 1, i - 1)

\* the map with develop as the base of every other branch type
BRANCH_TYPE_UPDATE_MAP_mut(t) ==
    IF t = <<"hotfix">> THEN Master ELSE Develop

\* BRANCH_TYPE_UPDATE_MAP
BRANCH_TYPE_UPDATE_MAP(t) ==
    IF t = <<"hotfix">> THEN Master
    ELSE IF t = <<"feature">> THEN Develop
    ELSE NoBase

InitUpdate ==
    /\ head \in UpdateBranches
    /\ dirty \in BOOLEAN
    /\ stash \in UNION {[1..n -> {"earlier"}] : n \in 0..MaxStash}
    /\ gpc = "idle"
    /\ gloc = [base |-> NoBase, current_branch |-> <<>>,
               base_branch |-> NoBase, stash_ref |-> ""]
    /\ gitlog = <<>>
    /\ gout = "none"
    /\ ApiIdle
    /\ VerIdle
    /\ CliIdle

\* octoeb update [-b base]
update_call ==
    /\ gpc = "idle"
    /\ \E base \in BaseOptions : gloc' = [gloc EXCEPT !.base = base]
    /\ gpc' = "rev_parse"
    /\ UNCHANGED <<head, dirty, stash, gitlog, gout>>
    /\ UNCHANGED <<apivars, vervars, clivars>>

\* lines 275-278: check_output raises CalledProcessError when git fails
update_rev_parse ==
    /\ gpc = "rev_parse"
    /\ gitlog' = Append(gitlog, Git("rev-parse", <<"HEAD">>))
    /\ \/ /\ gloc' = [gloc EXCEPT !.current_branch = head]
          /\ gpc' = "base_branch"
          /\ gout' = gout
       \/ /\ gloc' = gloc
          /\ gpc' = "done"
          /\ gout' = "CalledProcessError"
    /\ UNCHANGED <<head, dirty, stash>>
    /\ UNCHANGED <<apivars, vervars, clivars>>

\* lines 282-295
update_base_branch ==
    /\ gpc = "base_branch"
    /\ LET mapped == BRANCH_TYPE_UPDATE_MAP(branch_type(gloc.current_branch))
       IN  IF mapped = NoBase /\ gloc.base = NoBase
           THEN /\ gpc' = "done"
                /\ gout' = "exit 1"
                /\ gloc' = gloc
           ELSE /\ gpc' = "stash_create"
                /\ gout' = gout
                /\ gloc' = [gloc EXCEPT !.base_branch =
                               IF gloc.base # NoBase THEN gloc.base
                               ELSE mapped]
    /\ UNCHANGED <<head, dirty, stash, gitlog>>
    /\ UNCHANGED <<apivars, vervars, clivars>>

\* lines 298-299
update_stash_create ==
    /\ gpc = "stash_create"
    /\ gitlog' = Append(gitlog, Git("stash create", <<>>))
    /\ \/ /\ gloc' = [gloc EXCEPT !.stash_ref = IF dirty THEN "ref" ELSE ""]
          /\ gpc' = IF dirty THEN "stash_store" ELSE "pull"
          /\ gout' = gout
       \/ /\ gloc' = gloc
          /\ gpc' = "done"
          /\ gout' = "CalledProcessError"
    /\ UNCHANGED <<head, dirty, stash>>
    /\ UNCHANGED <<apivars, vervars, clivars>>

\* lines 301-304
update_stash_store ==
    /\ gpc = "stash_store"
    /\ gitlog' = gitlog \o <<Git("stash store", <<gloc.stash_ref>>),
                              Git("reset --hard", <<>>)>>
    /\ stash' = <<gloc.stash_ref>> \o stash
    /\ dirty' = FALSE
    /\ gpc' = "pull"
    /\ UNCHANGED <<head, gloc, gout>>
    /\ UNCHANGED <<apivars, vervars, clivars>>

\* lines 306-309: check_call raises CalledProcessError when the rebase fails
update_pull ==
    /\ gpc = "pull"
    /\ gitlog' = Append(gitlog, Git("pull -r mainline", gloc.base_branch))
    /\ gpc' \in {"push", "abort"}
    /\ UNCHANGED <<head, dirty, stash, gloc, gout>>
    /\ UNCHANGED <<apivars, vervars, clivars>>

\* lines 310-313
update_abort ==
    /\ gpc = "abort"
    /\ gitlog' = gitlog \o <<Git("rebase --abort", <<>>),
                              Git("checkout", gloc.current_branch)>>
    /\ gpc' = "finally"
    /\ UNCHANGED <<head, dirty, stash, gloc, gout>>
    /\ UNCHANGED <<apivars, vervars, clivars>>

\* lines 314-317
update_push ==
    /\ gpc = "push"
    /\ gitlog' = Append(gitlog, Git("push -f origin", gloc.base_branch))
    /\ gpc' = "finally"
    /\ UNCHANGED <<head, dirty, stash, gloc, gout>>
    /\ UNCHANGED <<apivars, vervars, clivars>>

\* lines 318-324: a pop that conflicts leaves the entry on the stash list
update_finally ==
    /\ gpc = "finally"
    /\ IF gloc.stash_ref # ""
       THEN /\ gitlog' = Append(gitlog, Git("stash pop", <<>>))
            /\ \/ stash' = Tail(stash) /\ dirty' = TRUE
               \/ stash' = stash /\ dirty' = dirty
       ELSE UNCHANGED <<gitlog, stash, dirty>>
    /\ gpc' = "done"
    /\ gout' = "exit 0"
    /\ UNCHANGED <<head, gloc>>
    /\ UNCHANGED <<apivars, vervars, clivars>>

NextUpdate ==
    \/ update_call
    \/ update_rev_parse
    \/ update_base_branch
    \/ update_stash_create
    \/ update_stash_store
    \/ update_pull
    \/ update_abort
    \/ update_push
    \/ update_finally

SpecUpdate == InitUpdate /\ [][NextUpdate]_vars

-----------------------------------------------------------------------------
(* The sync command (cli.py, sync) *)

\* line 229: for x in ('master', 'develop')
CoreBranches == <<"master", "develop">>

SyncBranches == {"feature-EB-1", "master", "develop"}

InitSyncCommand ==
    /\ head \in SyncBranches
    /\ dirty \in BOOLEAN
    /\ stash \in UNION {[1..n -> {"earlier"}] : n \in 0..MaxStash}
    /\ gpc = "idle"
    /\ gloc = [stash_ref |-> "", org_branch |-> "", x |-> 1, raised |-> FALSE]
    /\ gitlog = <<>>
    /\ gout = "none"
    /\ ApiIdle
    /\ VerIdle
    /\ CliIdle

\* lines 212-213: check_output raises CalledProcessError when git fails,
\* here outside the try statement
sync_stash_create ==
    /\ gpc = "idle"
    /\ gitlog' = Append(gitlog, Git("stash create", ""))
    /\ \/ /\ gloc' = [gloc EXCEPT !.stash_ref = IF dirty THEN "ref" ELSE ""]
          /\ gpc' = IF dirty THEN "stash_store" ELSE "rev_parse"
          /\ gout' = gout
       \/ /\ gloc' = gloc
          /\ gpc' = "done"
          /\ gout' = "CalledProcessError"
    /\ UNCHANGED <<head, dirty, stash>>
    /\ UNCHANGED <<apivars, vervars, clivars>>

\* lines 215-218
sync_stash_store ==
    /\ gpc = "stash_store"
    /\ gitlog' = gitlog \o <<Git("stash store", gloc.stash_ref),
                              Git("reset --hard", "")>>
    /\ stash' = <<gloc.stash_ref>> \o stash
    /\ dirty' = FALSE
    /\ gpc' = "rev_parse"
    /\ UNCHANGED <<head, gloc, gout>>
    /\ UNCHANGED <<apivars, vervars, clivars>>

\* a call inside the try statement raises: control goes to the finally
\* clause with the exception pending
SyncRaises ==
    /\ gloc' = [gloc EXCEPT !.raised = TRUE]
    /\ gpc' = "finally"
    /\ head' = head

\* lines 221-225: check_output raises CalledProcessError when git fails
sync_rev_parse ==
    /\ gpc = "rev_parse"
    /\ gitlog' = Append(gitlog, Git("rev-parse", "HEAD"))
    /\ \/ /\ gloc' = [gloc EXCEPT !.org_branch = head, !.x = 1]
          /\ gpc' = "checkout"
          /\ head' = head
       \/ SyncRaises
    /\ UNCHANGED <<dirty, stash, gout>>
    /\ UNCHANGED <<apivars, vervars, clivars>>

\* line 231: subprocess.call, a failed checkout goes unnoticed; the call
\* itself raises OSError when git cannot be run
sync_checkout ==
    /\ gpc = "checkout"
    /\ gitlog' = Append(gitlog, Git("checkout", CoreBranches[gloc.x]))
    /\ \/ /\ head' \in {CoreBranches[gloc.x], head}
          /\ gpc' = "pull"
          /\ gloc' = gloc
       \/ SyncRaises
    /\ UNCHANGED <<dirty, stash, gout>>
    /\ UNCHANGED <<apivars, vervars, clivars>>

\* line 232
sync_pull ==
    /\ gpc = "pull"
    /\ gitlog' = Append(gitlog, Git("pull mainline", CoreBranches[gloc.x]))
    /\ \/ gpc' = "push" /\ gloc' = gloc /\ head' = head
       \/ SyncRaises
    /\ UNCHANGED <<dirty, stash, gout>>
    /\ UNCHANGED <<apivars, vervars, clivars>>

\* line 233, and the next branch of the loop
sync_push ==
    /\ gpc = "push"
    /\ gitlog' = Append(gitlog, Git("push origin", CoreBranches[gloc.x]))
    /\ \/ /\ IF gloc.x < Len(CoreBranches)
             THEN gpc' = "checkout" /\ gloc' = [gloc EXCEPT !.x = @ + 1]
             ELSE gpc' = "checkout_org" /\ gloc' = gloc
          /\ head' = head
       \/ SyncRaises
    /\ UNCHANGED <<dirty, stash, gout>>
    /\ UNCHANGED <<apivars, vervars, clivars>>

\* lines 235-236
sync_checkout_org ==
    /\ gpc = "checkout_org"
    /\ gitlog' = Append(gitlog, Git("checkout", gloc.org_branch))
    /\ \/ /\ head' \in {gloc.org_branch, head}
          /\ gpc' = "finally"
          /\ gloc' = gloc
       \/ SyncRaises
    /\ UNCHANGED <<dirty, stash, gout>>
    /\ UNCHANGED <<apivars, vervars, clivars>>

\* the pop placed after the try statement instead of in a finally clause
sync_pops_mut(stash_ref, raised) == stash_ref # "" /\ ~raised

\* lines 237-239: finally: if stash_ref
sync_pops(stash_ref, raised) == stash_ref # ""

\* lines 237-241: the finally clause, then sys.exit() or the exception
sync_finally ==
    /\ gpc = "finally"
    /\ IF sync_pops(gloc.stash_ref, gloc.raised)
       THEN /\ gitlog' = Append(gitlog, Git("stash pop", ""))
            /\ \/ stash # <<>> /\ stash' = Tail(stash) /\ dirty' = TRUE
               \/ stash' = stash /\ dirty' = dirty
       ELSE UNCHANGED <<gitlog, stash, dirty>>
    /\ gpc' = "done"
    /\ gout' = IF gloc.raised THEN "exception" ELSE "exit 0"
    /\ UNCHANGED <<head, gloc>>
    /\ UNCHANGED <<apivars, vervars, clivars>>

NextSyncCommand ==
    \/ sync_stash_create
    \/ sync_stash_store
    \/ sync_rev_parse
    \/ sync_checkout
    \/ sync_pull
    \/ sync_push
    \/ sync_checkout_org
    \/ sync_finally

SpecSyncCommand == InitSyncCommand /\ [][NextSyncCommand]_vars

-----------------------------------------------------------------------------
(* SpecVersion: the version validators applied to strings *)

InputChars == {"0", "1", ".", NL}
Strings == UNION {[1..n -> InputChars] : n \in 0..MaxLen}

\* versions of 4 and 5 components, longer than MaxLen allows
VersionParts == {<<"0">>, <<"1">>, <<"0", "1">>}
DottedVersions ==
    {Join(c) : c \in UNION {[1..n -> VersionParts] : n \in 4..5}}

Inputs == Strings \cup DottedVersions

NoResult == Raised("none", "")

InitVersion ==
    /\ version \in Inputs
    /\ fn = "none"
    /\ varg = None
    /\ vlatest = NoPrerelease
    /\ result = NoResult
    /\ ApiIdle
    /\ GitIdle
    /\ CliIdle

Apply(f, a, l, r) ==
    /\ fn = "none"
    /\ fn' = f
    /\ varg' = a
    /\ vlatest' = l
    /\ result' = r
    /\ UNCHANGED version
    /\ UNCHANGED <<apivars, gitvars, clivars>>

Call_validate_version ==
    \E a \in {version, None} :
        Apply("validate_version", a, NoPrerelease, validate_version(a))

Call_validate_version_arg ==
    \E a \in {version, None} :
        Apply("validate_version_arg", a, NoPrerelease, validate_version_arg(a))

\* without a version the callback takes the tag of the latest pre-release
Call_validate_version_arg_or_latest_prerelease ==
    \E a \in {version, None} :
      \E l \in (IF a = None THEN {NoPrerelease, Prerelease(version)}
                ELSE {NoPrerelease}) :
        Apply("validate_version_arg_or_latest_prerelease", a, l,
              validate_version_arg_or_latest_prerelease(a, l))

Call_extract_major_version ==
    Apply("extract_major_version", version, NoPrerelease,
          Returned(extract_major_version(version)))

Call_extract_year_week_version ==
    Apply("extract_year_week_version", version, NoPrerelease,
          Returned(extract_year_week_version(version)))

Call_extract_release_branch_version ==
    Apply("extract_release_branch_version", version, NoPrerelease,
          Returned(extract_release_branch_version(version)))

NextVersion ==
    \/ Call_validate_version
    \/ Call_validate_version_arg
    \/ Call_validate_version_arg_or_latest_prerelease
    \/ Call_extract_major_version
    \/ Call_extract_year_week_version
    \/ Call_extract_release_branch_version

SpecVersion == InitVersion /\ [][NextVersion]_vars

-----------------------------------------------------------------------------
(* The migration checks (utils/migrations.py) *)

\* An SQL text is a sequence of words, read as joined by single blanks; the
\* word NL is a line break.
Words == {"NOT", "NULL", "DROP", "ADD", "COLUMN", "DEFAULT", "x", NL}

\* line 11: re.compile(r'NOT NULL', re.M).search
not_null_finder(sql) ==
    \E i \in 1..(Len(sql) - 1) : sql[i] = "NOT" /\ sql[i + 1] = "NULL"

\* line 12: re.compile(r'DROP COLUMN', re.M).search
drop_col_finder(sql) ==
    \E i \in 1..(Len(sql) - 1) : sql[i] = "DROP" /\ sql[i + 1] = "COLUMN"

\* line 13: re.compile(r'ADD COLUMN .* DEFAULT', re.M).search; the dot
\* matches no line break, and the two blanks of the pattern need a word
\* between COLUMN and DEFAULT
add_with_default_finder(sql) ==
    \E i \in 1..Len(sql), j \in 1..Len(sql) :
        /\ i + 3 <= j
        /\ sql[i] = "ADD"
        /\ sql[i + 1] = "COLUMN"
        /\ sql[j] = "DEFAULT"
        /\ \A k \in (i + 2)..(j - 1) : sql[k] # NL

\* lines 22-35
check_for_not_null(sql) ==
    IF not_null_finder(sql) THEN <<"- contains NOT NULL columns">> ELSE None

\* lines 38-47
check_for_dropped_columns(sql) ==
    IF drop_col_finder(sql) THEN <<"- drops columns">> ELSE None

\* lines 50-65
check_for_add_with_default(sql) ==
    IF add_with_default_finder(sql)
    THEN <<"- adds a new column with DEFAULT">>
    ELSE None

\* lines 68-72, each check applied to the text
SQL_BACKWARDS_COMPATIBILITY_CHECKS(sql) ==
    <<check_for_not_null(sql), check_for_dropped_columns(sql),
      check_for_add_with_default(sql)>>

IsReason(r) == r # None

\* the loop left at the first reason found
errors_of_mut(sql) ==
    LET found == SelectSeq(SQL_BACKWARDS_COMPATIBILITY_CHECKS(sql), IsReason)
    IN  IF found = <<>> THEN <<>> ELSE <<found[1]>>

\* lines 100-104: the results that are not None, in the order of the checks
errors_of(sql) ==
    SelectSeq(SQL_BACKWARDS_COMPATIBILITY_CHECKS(sql), IsReason)

\* lines 96-110: the second loop of check_problem_sql, over the SQL texts
\* that sqlmigrate printed; any(errors) holds when a reason is non-empty
check_problem_sql(sql_map) ==
    LET problems == {m \in DOMAIN sql_map :
                       \E i \in 1..Len(errors_of(sql_map[m])) :
                           errors_of(sql_map[m])[i] # <<"">>}
    IN  [problem_migrations |-> [m \in problems |-> errors_of(sql_map[m])],
         sql_map |-> sql_map]

Sqls == UNION {[1..n -> Words] : n \in 0..MaxSql}

\* texts longer than MaxSql: a column added NOT NULL with a default and a
\* column dropped, a column added with a default, and a default on the
\* line after ADD COLUMN
LongSqls ==
    {<<"ADD", "COLUMN", "x", "NOT", "NULL", "DEFAULT", NL, "DROP", "COLUMN">>,
     <<"ADD", "COLUMN", "x", "DEFAULT">>,
     <<"ADD", "COLUMN", "x", NL, "DEFAULT", "x">>}

SqlMaps ==
    {[m \in {"0001_a"} |-> t] : t \in Sqls \cup LongSqls}
    \cup {[m \in {"0001_a", "0002_b"} |-> IF m = "0001_a" THEN t ELSE u] :
            t \in Sqls \cup LongSqls, u \in {<<>>, <<"NOT", "NULL">>}}

InitMigrations ==
    /\ version = <<>>
    /\ fn = "none"
    /\ varg \in SqlMaps
    /\ vlatest = NoPrerelease
    /\ result = NoResult
    /\ ApiIdle
    /\ GitIdle
    /\ CliIdle

Call_check_problem_sql ==
    Apply("check_problem_sql", varg, NoPrerelease,
          Returned(check_problem_sql(varg)))

NextMigrations == Call_check_problem_sql

SpecMigrations == InitMigrations /\ [][NextMigrations]_vars

-----------------------------------------------------------------------------
(* The changelog (utils/git.py, changelog) *)

\* the code point of a character, for the characters that occur
Ord(c) ==
    CASE c = " " -> 32 [] c = "*" -> 42 [] c = "-" -> 45
      [] c = "1" -> 49 [] c = "2" -> 50 [] c = ":" -> 58
      [] c = "A" -> 65 [] c = "B" -> 66 [] c = "E" -> 69 [] c = "_" -> 95
      [] c = "a" -> 97 [] c = "b" -> 98 [] c = "e" -> 101

IsLower(c) == Ord(c) >= 97
IsUpper(c) == Ord(c) >= 65 /\ Ord(c) <= 90
IsLetter(c) == IsLower(c) \/ IsUpper(c)

UpperChar(c) ==
    CASE c = "a" -> "A" [] c = "b" -> "B" [] c = "e" -> "E" [] OTHER -> c

LowerChar(c) ==
    CASE c = "A" -> "a" [] c = "B" -> "b" [] c = "E" -> "e" [] OTHER -> c

\* str.upper
Upper(s) == [i \in 1..Len(s) |-> UpperChar(s[i])]

\* str.replace('-', ' ').replace('_', ' ')
Blanked(s) == [i \in 1..Len(s) |-> IF s[i] \in {"-", "_"} THEN " " ELSE s[i]]

\* str.title: a letter after a letter is lowered, every other letter raised
Title(s) ==
    [i \in 1..Len(s) |->
        IF i > 1 /\ IsLetter(s[i - 1]) THEN LowerChar(s[i])
        ELSE UpperChar(s[i])]

\* lines 164-167: u'* {} : {}'.format(m[0].upper(), m[1]...title())
Bullet(m) ==
    <<"*", " ">> \o Upper(m.id) \o <<" ", ":", " ">> \o Title(Blanked(m.title))

\* the order of unicode strings: by code point, a prefix first
Before(a, b) ==
    \E i \in 1..(Len(a) + 1) :
        /\ \A k \in 1..(i - 1) : k <= Len(b) /\ a[k] = b[k]
        /\ i <= Len(b)
        /\ i = Len(a) + 1 \/ Ord(a[i]) < Ord(b[i])

RECURSIVE SortSet(_)
SortSet(S) ==
    IF S = {} THEN <<>>
    ELSE LET m == CHOOSE x \in S : \A y \in S : x = y \/ Before(x, y)
         IN  <<m>> \o SortSet(S \ {m})

\* the lines neither de-duplicated nor sorted
unique_sorted_mut(lines) == lines

\* line 168: sorted(set(changelog))
unique_sorted(lines) == SortSet({lines[i] : i \in 1..Len(lines)})

\* u'\n'.join
RECURSIVE JoinLines(_)
JoinLines(lines) ==
    IF lines = <<>> THEN <<>>
    ELSE IF Len(lines) = 1 THEN lines[1]
    ELSE lines[1] \o <<NL>> \o JoinLines(Tail(lines))

IsMerge(line) == line.merge

\* changelog_re.findall(log): the groups (ticket id, title) of the lines
\* that are merge commits of a ticket branch, in the order of the log
findall(log) ==
    LET found == SelectSeq(log, IsMerge)
    IN  [i \in 1..Len(found) |-> [id |-> found[i].id, title |-> found[i].title]]

\* lines 155-168, the string returned for ticket_ids=False
changelog(log) ==
    LET m == findall(log)
    IN  JoinLines(unique_sorted([i \in 1..Len(m) |-> Bullet(m[i])]))

\* a line of the log: "Merge pull request #n from <user>/feature-<id>-<title>"
\* or any other line
MergeLine(id, title) == [merge |-> TRUE, id |-> id, title |-> title]

LogLines ==
    {MergeLine(<<"e", "b", "-", "1">>, <<"a", "-", "b">>),
     MergeLine(<<"E", "B", "-", "1">>, <<"A", "_", "b">>),
     MergeLine(<<"e", "b", "-", "2">>, <<"a", "b">>),
     MergeLine(<<"e", "b", "-", "1">>, <<"a">>),
     [merge |-> FALSE, id |-> <<>>, title |-> <<>>]}

Logs == UNION {[1..n -> LogLines] : n \in 0..MaxLog}

InitChangelog ==
    /\ version = <<>>
    /\ fn = "none"
    /\ varg \in Logs
    /\ vlatest = NoPrerelease
    /\ result = NoResult
    /\ ApiIdle
    /\ GitIdle
    /\ CliIdle

Call_changelog ==
    Apply("changelog", varg, NoPrerelease, Returned(changelog(varg)))

NextChangelog == Call_changelog

SpecChangelog == InitChangelog /\ [][NextChangelog]_vars

-----------------------------------------------------------------------------
(* SpecArgs: octoeb/cli.py from the start of the process to the first      *)
(* statement of a command: configuration, clients, parameter callbacks     *)

\* sections and options of the configuration file
RepoKeys == {"repo", "repo.USER", "repo.TOKEN", "repo.REPO", "repo.FORK",
             "repo.OWNER"}
BugtrackerKeys == {"bugtracker", "bugtracker.BASE_URL", "bugtracker.USER",
                   "bugtracker.TOKEN"}
ConfigKeys == RepoKeys \cup BugtrackerKeys

\* the file is complete or lacks one key
Configs == {ConfigKeys} \cup {ConfigKeys \ {k} : k \in ConfigKeys}

\* octoeb/utils/config.py validate_config: the assertions all hold
validate_config(config) == RepoKeys \cup {"bugtracker"} \subseteq config

\* the parameters of each command that have a callback, in declaration order
Params(c) ==
    CASE c \in {"start release", "qa", "release"} -> <<"version">>
      [] c = "start releasefix" -> <<"version", "ticket">>
      [] c \in {"start hotfix", "start feature"} -> <<"ticket">>
Commands == {"start release", "qa", "release", "start releasefix",
             "start hotfix", "start feature"}

Param(name, given) == [name |-> name, given |-> given]

\* click runs the callbacks of the parameters given on the command line
\* first, in the order given, then those of the others as declared
ParamOrders(c) ==
    LET ps == Params(c)
    IN  IF Len(ps) = 1
        THEN {<<Param(ps[1], g)>> : g \in BOOLEAN}
        ELSE {<<Param(ps[1], TRUE), Param(ps[2], TRUE)>>,
              <<Param(ps[2], TRUE), Param(ps[1], TRUE)>>,
              <<Param(ps[1], TRUE), Param(ps[2], FALSE)>>,
              <<Param(ps[2], TRUE), Param(ps[1], FALSE)>>,
              <<Param(ps[1], FALSE), Param(ps[2], FALSE)>>}

\* what can be typed after -v and after -t
ArgVersions == {s \in Inputs : Len(s) <= MaxArgLen} \cup Versions
TicketChars == {"E", "-", "1", "_"}
Letters == {"E"}
ArgTickets == UNION {[1..n -> TicketChars] : n \in 0..MaxArgLen}

\* re.match(r'^[a-zA-Z]+-\d+', name): a prefix of name matches
TicketRe(s) ==
    \E i \in 1..(Len(s) - 2) :
      \E j \in (i + 2)..Len(s) :
        /\ \A k \in 1..i : s[k] \in Letters
        /\ s[i + 1] = "-"
        /\ \A k \in (i + 2)..j : s[k] \in Digits

validate_ticket_arg(name) ==
    IF name = None THEN Raised("BadParameter", "Ticket number is required")
    ELSE IF TicketRe(name) THEN Returned(name)
    ELSE Raised("BadParameter", "Invalid ticket format")

Step(kind, what) == [kind |-> kind, what |-> what]

InitArgs ==
    /\ command \in [name : Commands, config : Configs]
    /\ cpc = "get_config"
    /\ cloc = [params |-> <<>>, version |-> None, ticket |-> None,
               typed |-> [version |-> None, ticket |-> None]]
    /\ trace = <<>>
    /\ exit = "running"
    /\ ApiIdle
    /\ GitIdle
    /\ VerIdle

ArgsStep ==
    /\ UNCHANGED command
    /\ UNCHANGED <<apivars, gitvars, vervars>>

\* cli lines 166, config.py lines 43-46: sys.exit('ERROR: ...')
cli_get_config ==
    /\ cpc = "get_config"
    /\ IF validate_config(command.config)
       THEN cpc' = "apis" /\ exit' = exit /\ trace' = trace
       ELSE /\ cpc' = "done"
            /\ exit' = "nonzero"
            /\ trace' = Append(trace, Step("error", "ERROR: Missing"))
    /\ UNCHANGED cloc
    /\ ArgsStep

\* cli lines 168-190: config.get raises NoOptionError for a missing option;
\* then the sub-command is looked up and its parameters are processed
cli_apis ==
    /\ cpc = "apis"
    /\ IF ConfigKeys \subseteq command.config
       THEN /\ \E order \in ParamOrders(command.name) :
                  cloc' = [cloc EXCEPT !.params = order]
            /\ cpc' = "callback"
            /\ exit' = exit
            /\ trace' = trace
       ELSE /\ cpc' = "done"
            /\ exit' = "nonzero"
            /\ trace' = Append(trace, Step("error", "NoOptionError"))
            /\ cloc' = cloc
    /\ ArgsStep

\* the callback of the -v option of the command
version_callback(c, v, latest) ==
    IF c = "start releasefix"
    THEN validate_version_arg_or_latest_prerelease(v, latest)
    ELSE validate_version_arg(v)

\* a callback has run: the next one, the command itself, or the usage error
Callback(r, field, a, requests) ==
    /\ trace' = trace \o requests
                \o (IF r.type = "return" THEN <<>>
                    ELSE <<Step("error", r.type)>>)
    /\ IF r.type # "return"
       THEN /\ cpc' = "done"
            /\ exit' = "nonzero"
            /\ cloc' = [cloc EXCEPT !.typed[field] = a]
       ELSE /\ exit' = exit
            /\ cpc' = IF Len(cloc.params) = 1 THEN "body" ELSE "callback"
            /\ cloc' = [cloc EXCEPT !.params = Tail(cloc.params),
                                    !.typed[field] = a,
                                    ![field] = r.value]
    /\ ArgsStep

\* lines 95-118: without -v, start releasefix asks the host for the releases
callback_version ==
    /\ cpc = "callback"
    /\ Head(cloc.params).name = "version"
    /\ \E v \in (IF Head(cloc.params).given THEN ArgVersions ELSE {None}) :
         LET asks == v = None /\ command.name = "start releasefix"
         IN  \E latest \in (IF asks
                            THEN {NoPrerelease, Prerelease(V_2_15_3_1)}
                            ELSE {NoPrerelease}) :
               Callback(version_callback(command.name, v, latest), "version",
                        v, IF asks THEN <<Step("http", "GET releases")>>
                        ELSE <<>>)

\* lines 121-129
callback_ticket ==
    /\ cpc = "callback"
    /\ Head(cloc.params).name = "ticket"
    /\ \E t \in (IF Head(cloc.params).given THEN ArgTickets ELSE {None}) :
         Callback(validate_ticket_arg(t), "ticket", t, <<>>)

\* the first request of the command: the lookup of the branch (start
\* release, start releasefix), of the release (qa, release) or of the
\* issue (start hotfix, start feature)
command_body ==
    /\ cpc = "body"
    /\ trace' = Append(trace, Step("http", "GET"))
    /\ cpc' = "running"
    /\ UNCHANGED <<cloc, exit>>
    /\ ArgsStep

NextArgs ==
    \/ cli_get_config
    \/ cli_apis
    \/ callback_version
    \/ callback_ticket
    \/ command_body

SpecArgs == InitArgs /\ [][NextArgs]_vars

-----------------------------------------------------------------------------
(* SpecCli: the commands start release and qa of octoeb/cli.py, run        *)
(* against the remote, the issue tracker, the chat service and git         *)

CliVersion == V_2_15_3_1
CliCommands == {"start release", "qa"}

Did(kind, what, o) == [kind |-> kind, what |-> what, outcome |-> o]

\* a call to git, the issue tracker or the chat service returns, or fails
\* in one of the given ways while failures are left
Outcomes(failures) ==
    {"ok"} \cup (IF cloc.faults < MaxFaults THEN failures ELSE {})

Count(o) == IF o = "ok" THEN cloc.faults ELSE cloc.faults + 1

\* JiraAPI.post: requests.post raises ConnectionError, raise_for_status
\* raises HTTPError; both are RequestException
PostFailures == {"HTTPError", "ConnectionError"}

\* jira.link_issues(change_id, ticket): class JiraAPI defines no method of
\* that name and no __getattr__, so the attribute lookup raises
link_issues == {"AttributeError"}

\* lines 389-394 and 783-788: except RequestException as e logs
\* e.response.json() and the loop goes on; a ConnectionError carries no
\* response; anything that is no RequestException leaves the loop
link_handler(o) ==
    CASE o = "ok" -> "next"
      [] o = "HTTPError" -> "next"
      [] o = "ConnectionError" -> "raise"
      [] OTHER -> "raise"

\* an exception or SystemExit leaves qa: what the caller does with it
Unwind(frame, how) ==
    IF frame = "try"
    THEN [cpc |-> IF how = "exception" THEN "sr_except" ELSE "sr_finally",
          pending |-> IF how = "zero" THEN "zero" ELSE "nonzero",
          exit |-> "running"]
    ELSE [cpc |-> "done",
          pending |-> "none",
          exit |-> IF how = "zero" THEN "zero" ELSE "nonzero"]

NoCloc ==
    [frame |-> "command", has_key |-> FALSE, n |-> 0, i |-> 0, faults |-> 0,
     pending |-> "none", duplicate |-> FALSE, http_error |-> FALSE,
     uncaught |-> FALSE]

InitCli ==
    /\ command \in [name : CliCommands, version : {CliVersion},
                    slack : BOOLEAN]
    /\ cpc = "start"
    /\ cloc = NoCloc
    /\ trace = <<>>
    /\ exit = "running"
    /\ \E sha \in {NoSha, "s1"} :
         refs = [b \in Branches |->
                   IF b \in {Master, Develop} THEN "s1"
                   ELSE IF b = ReleaseArgs(CliVersion).release_branch THEN sha
                   ELSE NoSha]
    /\ releases = <<>>
    /\ pushes = 0
    /\ op = "none"
    /\ pc = "idle"
    /\ args = <<>>
    /\ loc = NoLoc
    /\ reqs = <<>>
    /\ outcome = Pending
    /\ releases0 = <<>>
    /\ refs0 = {}
    /\ GitIdle
    /\ VerIdle

\* a step of the command that calls nothing of GitHubAPI
Local ==
    /\ UNCHANGED command
    /\ UNCHANGED <<apivars, gitvars, vervars>>

\* the host answered a request of the call just ended with 401 or 500
HttpError == \E i \in 1..Len(reqs) : reqs[i].status \in HttpErrors

\* the process ends with the given status
Exit(status, seen) ==
    /\ cpc' = "done"
    /\ exit' = status
    /\ trace' = trace \o seen

\* qa(ctx, version, release_ticket_key) is entered
EnterQa(frame, key) ==
    /\ cloc' = [cloc EXCEPT !.frame = frame, !.has_key = key,
                            !.n = 0, !.i = 0]
    /\ cpc' = "qa_on_branch"

\* ---- start release ----

\* lines 344-347
sr_create_release_branch ==
    /\ cpc = "start"
    /\ command.name = "start release"
    /\ Begin("create_branch",
             [name |-> ReleaseArgs(command.version).release_branch,
              base_name |-> Develop, from_sha |-> FALSE],
             "cb_get_branch")
    /\ cpc' = "sr_branch"
    /\ trace' = Append(trace, Did("github", "create_release_branch", "called"))
    /\ UNCHANGED <<command, cloc, exit>>
    /\ UNCHANGED <<gitvars, vervars>>

\* the handler ends the command, as that of start hotfix does
after_duplicate_mut == "exit"

\* lines 348-352: the handler goes on after the branch is looked up
after_duplicate == "continue"

\* lines 347-354: how create_release_branch ended
sr_branch_result ==
    /\ cpc = "sr_branch"
    /\ pc = "done"
    /\ IF outcome = DuplicateBranchError /\ after_duplicate = "continue"
       THEN /\ Begin("get_branch",
                     [name |-> ReleaseArgs(command.version).release_branch],
                     "gb_get")
            /\ cpc' = "sr_dup"
            /\ exit' = exit
            /\ trace' = trace \o <<Did("git", "fetch mainline", "ok"),
                                   Did("git", "checkout", "ok"),
                                   Did("github", "get_branch", "called")>>
            /\ cloc' = [cloc EXCEPT !.duplicate = TRUE,
                                    !.http_error = @ \/ HttpError]
       ELSE /\ UNCHANGED apivars
            /\ cloc' = [cloc EXCEPT !.http_error = @ \/ HttpError]
            /\ IF outcome = Ok
               THEN cpc' = "sr_try" /\ exit' = exit /\ trace' = trace
               ELSE Exit("nonzero", <<Did("sys.exit", outcome.type, "nonzero")>>)
    /\ UNCHANGED command
    /\ UNCHANGED <<gitvars, vervars>>

\* line 351: get_branch raises inside the except clause, nothing catches it
sr_dup_result ==
    /\ cpc = "sr_dup"
    /\ pc = "done"
    /\ IF outcome = Ok
       THEN /\ cpc' = "sr_try" /\ exit' = exit /\ trace' = trace
            /\ cloc' = [cloc EXCEPT !.http_error = @ \/ HttpError]
       ELSE /\ Exit("nonzero", <<Did("traceback", outcome.type, "nonzero")>>)
            /\ cloc' = [cloc EXCEPT !.http_error = @ \/ HttpError,
                                    !.uncaught = TRUE]
    /\ Local

\* lines 357-361: git.log raises ValueError when git fails; the changelog
\* yields the ticket ids of the merged branches
sr_try_log ==
    /\ cpc = "sr_try"
    /\ \E o \in Outcomes({"ValueError"}) :
         /\ trace' = trace \o <<Did("git", "fetch mainline", "ok"),
                                Did("git", "checkout", "ok"),
                                Did("git", "log", o)>>
         /\ IF o = "ok"
            THEN /\ \E n \in 0..MaxTickets :
                      cloc' = [cloc EXCEPT !.n = n, !.i = 0]
                 /\ cpc' = "sr_audit"
            ELSE /\ cloc' = [cloc EXCEPT !.faults = Count(o)]
                 /\ cpc' = "sr_except"
    /\ UNCHANGED exit
    /\ Local

\* line 366
sr_audit ==
    /\ cpc = "sr_audit"
    /\ \E o \in Outcomes({"ValueError"}) :
         /\ trace' = Append(trace, Did("git", "audit_changes", o))
         /\ cloc' = [cloc EXCEPT !.faults = Count(o)]
         /\ cpc' = IF o = "ok" THEN "sr_create_issue" ELSE "sr_except"
    /\ UNCHANGED exit
    /\ Local

\* lines 368-377
sr_create_issue ==
    /\ cpc = "sr_create_issue"
    /\ \E o \in Outcomes(PostFailures) :
         /\ trace' = Append(trace, Did("jira", "create_issue", o))
         /\ cloc' = [cloc EXCEPT !.faults = Count(o)]
         /\ cpc' = IF o # "ok" THEN "sr_except"
                   ELSE IF cloc.n = 0 THEN "sr_slack" ELSE "sr_link"
    /\ UNCHANGED exit
    /\ Local

\* one pass of a linking loop
Link(loop) ==
    [kind |-> "jira", what |-> "link_issues", loop |-> loop,
     i |-> cloc.i + 1, of |-> cloc.n]

\* lines 380-394: one pass of the loop
sr_link ==
    /\ cpc = "sr_link"
    /\ \E o \in link_issues :
         /\ trace' = Append(trace, Link("start release") @@ [outcome |-> o])
         /\ cloc' = [cloc EXCEPT !.i = @ + 1]
         /\ cpc' = IF link_handler(o) # "next" THEN "sr_except"
                   ELSE IF cloc.i + 1 = cloc.n THEN "sr_slack" ELSE "sr_link"
    /\ UNCHANGED exit
    /\ Local

\* lines 396-413: the channel when the chat service is configured, then qa
sr_slack ==
    /\ cpc = "sr_slack"
    /\ \E o \in (IF command.slack THEN Outcomes({"Error"}) ELSE {"ok"}) :
         /\ trace' = trace \o (IF command.slack
                               THEN <<Did("slack", "create_release_channel", o)>>
                               ELSE <<>>)
         /\ IF o = "ok"
            THEN EnterQa("try", TRUE)
            ELSE /\ cloc' = [cloc EXCEPT !.faults = Count(o)]
                 /\ cpc' = "sr_except"
    /\ UNCHANGED exit
    /\ Local

\* lines 415-417: print(e.message); sys.exit(e.message)
sr_except ==
    /\ cpc = "sr_except"
    /\ trace' = Append(trace, Did("print", "e.message", "ok"))
    /\ cloc' = [cloc EXCEPT !.pending = "nonzero"]
    /\ cpc' = "sr_finally"
    /\ UNCHANGED exit
    /\ Local

\* the finally clause without its call of qa
finally_calls_qa_mut == FALSE

\* lines 423-424: qa(ctx, version) inside the finally clause
finally_calls_qa == TRUE

\* lines 418-426: the finally clause runs whatever is pending
sr_finally ==
    /\ cpc = "sr_finally"
    /\ IF finally_calls_qa
       THEN /\ EnterQa("finally", FALSE)
            /\ trace' = Append(trace, Did("echo", "Branch created", "ok"))
            /\ exit' = exit
       ELSE /\ Exit(cloc.pending, <<Did("echo", "Branch created", "ok")>>)
            /\ cloc' = cloc
    /\ Local

\* ---- qa ----

\* lines 731-740: the ticket key is read from the release of the branch's
\* version, None when that fails
qa_command ==
    /\ cpc = "start"
    /\ command.name = "qa"
    /\ \E key \in BOOLEAN :
         /\ trace' = Append(trace, Did("github", "get_release_ticket_key_for_tag",
                                        IF key THEN "ok" ELSE "None"))
         /\ EnterQa("command", key)
    /\ UNCHANGED exit
    /\ Local

\* an exception leaves qa
Raise(o, seen) ==
    LET u == Unwind(cloc.frame, "exception")
    IN  /\ cpc' = u.cpc
        /\ exit' = u.exit
        /\ trace' = trace \o seen
        /\ cloc' = [cloc EXCEPT !.faults = Count(o),
                                !.uncaught = (u.cpc = "done")]

\* line 751, git.py lines 225-243: on_branch is entered
qa_on_branch ==
    /\ cpc = "qa_on_branch"
    /\ \E o \in Outcomes({"CalledProcessError"}) :
         IF o = "ok"
         THEN /\ trace' = Append(trace, Did("git", "on_branch", o))
              /\ cpc' = "qa_log"
              /\ UNCHANGED <<cloc, exit>>
         ELSE Raise(o, <<Did("git", "on_branch", o)>>)
    /\ Local

\* lines 752-764: the log and the changelog inside the with-statement
qa_log ==
    /\ cpc = "qa_log"
    /\ \E o \in Outcomes({"ValueError"}) :
         IF o = "ok"
         THEN /\ \E n \in (IF cloc.has_key THEN 0..MaxTickets ELSE {0}) :
                   /\ cloc' = [cloc EXCEPT !.n = n, !.i = 0]
                   /\ cpc' = IF n = 0 THEN "qa_pre" ELSE "qa_link"
                   /\ trace' = trace \o <<Did("git", "log", o)>>
                               \o (IF n = 0
                                   THEN <<Did("git", "on_branch exit", "ok")>>
                                   ELSE <<>>)
              /\ exit' = exit
         ELSE Raise(o, <<Did("git", "log", o)>>)
    /\ Local

\* lines 772-788: one pass of the loop; after the last, on_branch restores
qa_link ==
    /\ cpc = "qa_link"
    /\ \E o \in link_issues :
         IF link_handler(o) = "next"
         THEN /\ trace' = trace \o <<Link("qa") @@ [outcome |-> o]>>
                          \o (IF cloc.i + 1 = cloc.n
                              THEN <<Did("git", "on_branch exit", "ok")>>
                              ELSE <<>>)
              /\ cloc' = [cloc EXCEPT !.i = @ + 1]
              /\ cpc' = IF cloc.i + 1 = cloc.n THEN "qa_pre" ELSE "qa_link"
              /\ exit' = exit
         ELSE Raise("ok", <<Link("qa") @@ [outcome |-> o]>>)
    /\ Local

\* line 791
qa_create_pre_release ==
    /\ cpc = "qa_pre"
    /\ Begin("create_pre_release", ReleaseArgs(command.version),
             "cpr_get_branch")
    /\ cpc' = "qa_result"
    /\ trace' = Append(trace, Did("github", "create_pre_release", "called"))
    /\ UNCHANGED <<command, cloc, exit>>
    /\ UNCHANGED <<gitvars, vervars>>

\* lines 790-794: sys.exit() or sys.exit(e.message)
qa_result ==
    /\ cpc = "qa_result"
    /\ pc = "done"
    /\ LET u == Unwind(cloc.frame, IF outcome = Ok THEN "zero" ELSE "nonzero")
       IN  /\ cpc' = u.cpc
           /\ exit' = u.exit
           /\ cloc' = [cloc EXCEPT !.pending = u.pending,
                                   !.http_error = @ \/ HttpError]
           /\ trace' = Append(trace, Did("sys.exit", outcome.type,
                                         IF outcome = Ok THEN "zero"
                                         ELSE "nonzero"))
    /\ Local

NextCli ==
    \/ sr_create_release_branch
    \/ create_branch_get_branch
    \/ create_branch_get_base
    \/ create_branch_post
    \/ sr_branch_result
    \/ get_branch_get
    \/ sr_dup_result
    \/ sr_try_log
    \/ sr_audit
    \/ sr_create_issue
    \/ sr_link
    \/ sr_slack
    \/ sr_except
    \/ sr_finally
    \/ qa_command
    \/ qa_on_branch
    \/ qa_log
    \/ qa_link
    \/ qa_create_pre_release
    \/ create_pre_release_get_branch
    \/ create_pre_release_get_release
    \/ create_pre_release_post
    \/ qa_result

SpecCli == InitCli /\ [][NextCli]_vars

-----------------------------------------------------------------------------
(* Properties of the GitHubAPI client, checked under Spec *)

Gets(path) ==
    {i \in 1..Len(reqs) : reqs[i].method = "GET" /\ reqs[i].path = path}
Posts(path) ==
    {i \in 1..Len(reqs) : reqs[i].method = "POST" /\ reqs[i].path = path}
Tags(rs) == {rs[i].tag_name : i \in 1..Len(rs)}
NoHttpError == \A i \in 1..Len(reqs) : reqs[i].status \notin HttpErrors
Unmerged == {"diverged", "ahead"}
Merged == {"behind", "identical"}

\* the name of the latest published release, prefix stripped
HasPublished == \E i \in 1..Len(releases) : ~releases[i].prerelease
LatestPublishedVersion ==
    LET pub == {i \in 1..Len(releases) : ~releases[i].prerelease}
        name == releases[CHOOSE i \in pub : \A j \in pub : j <= i].name
    IN  SubSeq(name, Len(build_release_base_name) + 1, Len(name))

C3_MergeStatusDecides ==
    (/\ op \in {"check_release_status", "create_release"}
     /\ loc.compare.status = 200)
    => /\ loc.compare.body[1] \in Unmerged
            => pc = "done" /\ outcome = MustBeMerged
       /\ loc.compare.body[1] \in Merged
            => /\ outcome # MustBeMerged
               /\ Gets("releases/latest") = {}
               /\ op = "check_release_status" => pc = "done" /\ outcome = Ok

C3_Witness ==
    /\ op = "check_release_status"
    /\ pc = "done"
    /\ loc.compare.status = 200
    /\ loc.compare.body[1] = "ahead"
    /\ outcome = MustBeMerged

\* C4: when the compare is answered 404, check_release_status does not
\* raise there: it fetches the latest release, raises the 'expected a
\* hotfix' error exactly when the year-week versions differ and returns
\* without error when they match.
C4_NotFoundFallsBack ==
    (/\ op = "check_release_status"
     /\ pc = "done"
     /\ loc.compare.status = 404)
    => /\ Gets("releases/latest") # {}
       /\ \A i \in Gets("releases/latest") :
            reqs[i].status = 200 =>
              IF extract_year_week_version(args.release_name)
                   = extract_year_week_version(
                       SubSeq(reqs[i].body, Len(build_release_base_name) + 1,
                              Len(reqs[i].body)))
              THEN outcome = Ok
              ELSE outcome = ExpectedHotfix

\* C5: when the compare fails with an HTTP error other than 404,
\* check_release_status propagates that GitHubAPIError unchanged and does
\* not ask for the latest release.
C5_OtherErrorsPropagate ==
    (/\ op = "check_release_status"
     /\ pc = "done"
     /\ loc.compare.status \in HttpErrors)
    => /\ outcome = GitHubAPIError(loc.compare.status)
       /\ Gets("releases/latest") = {}

\* C6: in the hotfix fallback (compare answered 404, a published release
\* exists) the requested version is accepted exactly when its year-week
\* version equals that of the latest published release's name with the
\* release-branch prefix stripped.
C6_FallbackAcceptsSameCycle ==
    (/\ op = "check_release_status"
     /\ pc = "done"
     /\ loc.compare.status = 404
     /\ HasPublished)
    => (outcome = Ok
          <=> extract_year_week_version(args.release_name)
                = extract_year_week_version(LatestPublishedVersion))

\* the call ended inside its readiness check
ReadinessFailed ==
    /\ op \in {"create_release", "release"}
    /\ pc = "done"
    /\ outcome # Ok
    /\ \E i \in Gets("compare") :
         \A j \in (i + 1)..Len(reqs) : reqs[j].path = "releases/latest"

\* C7: in create_release and the release command the readiness check comes
\* before the duplicate-tag lookup, the lookup of master and the POST to
\* releases, which are issued only after it passed; when it fails no POST
\* to releases has been issued and the remote's release records are
\* unchanged.
C7_ReadinessBeforeRelease ==
    op \in {"create_release", "release"}
    => /\ \A i \in 1..Len(reqs) :
            reqs[i].path \in {"releases/tags", "git/refs/heads", "releases"}
            => /\ \E j \in 1..(i - 1) : reqs[j].path = "compare"
               /\ loc.compare.status = 200
               /\ loc.compare.body[1] \notin Unmerged
       /\ ReadinessFailed
            => Posts("releases") = {} /\ releases = releases0

C7_Witness ==
    /\ ReadinessFailed
    /\ op = "release"
    /\ outcome = MustBeMerged
    /\ Posts("releases") = {}

C9_PostedRecord ==
    \A i \in Posts("releases") :
        LET info == loc.posted[1]
        IN  /\ info.tag_name = args.release_name
            /\ info.draft = FALSE
            /\ i = Len(reqs)
            /\ i > 1
            /\ reqs[i].status = 201 => releases[Len(releases)] = info
            /\ op = "create_pre_release"
                 => /\ info.prerelease = TRUE
                    /\ reqs[1].path = "git/refs/heads"
                    /\ reqs[1].arg = args.release_branch
                    /\ info.target_commitish = reqs[1].body[1]
            /\ op \in {"create_release", "release"}
                 => /\ info.prerelease = FALSE
                    /\ reqs[i - 1].path = "git/refs/heads"
                    /\ reqs[i - 1].arg = Master
                    /\ info.target_commitish = reqs[i - 1].body[1]
                    /\ \E j, k \in 1..(i - 2) :
                         /\ j < k
                         /\ reqs[j].path = "compare"
                         /\ reqs[k].path = "releases/tags"

\* a release was published for a master that has moved on since it was read
C9_Witness ==
    /\ op = "create_release"
    /\ pc = "done"
    /\ outcome = Ok
    /\ Posts("releases") # {}
    /\ releases[Len(releases)].prerelease = FALSE
    /\ releases[Len(releases)].target_commitish # refs[Master]

-----------------------------------------------------------------------------
(* Properties of on_branch, checked under SpecGit *)

AfterYield(cmd, x) ==
    \E i, j \in 1..Len(gitlog) :
        i < j /\ gitlog[i] = Yield /\ gitlog[j] = Git(cmd, x)

\* C1: on every exit of the block wrapped by on_branch, also when the block
\* raises, the branch that was current on entry is checked out afterwards
\* and, if a stash was stored on entry, the stash is popped.
C1_RestoredOnEveryExit ==
    (gpc = "done" /\ \E i \in 1..Len(gitlog) : gitlog[i] = Yield)
    => /\ AfterYield("checkout", gloc.org_branch)
       /\ gloc.stash_ref # "" => AfterYield("stash pop", "")

-----------------------------------------------------------------------------
(* Properties of the version validators, checked under SpecVersion *)

\* 4 or 5 non-empty all-digit components separated by single dots
WellFormed(s) ==
    /\ s # None
    /\ Len(Split(s)) \in {4, 5}
    /\ \A i \in 1..Len(Split(s)) : Split(s)[i] # <<>> /\ IsDigits(Split(s)[i])

Validators ==
    {"validate_version", "validate_version_arg",
     "validate_version_arg_or_latest_prerelease"}

\* the string the validator examined
Examined == IF varg = None THEN vlatest.tag_name ELSE varg

\* C10: a string is accepted by a version validator exactly when it is 4 or
\* 5 non-empty all-digit components separated by single dots; every other
\* string is rejected with the validator's error.
C10_AcceptsOnlyDottedVersions ==
    (fn \in Validators /\ (varg # None \/ vlatest.found))
    => IF WellFormed(Examined)
       THEN result.type = "return"
       ELSE result.type \in {"BadParameter", "Exception"}

\* the dot-components of a string, counted from 1
Components(s) == Split(s)

\* the components a..b of s that exist, joined by dots
JoinedComponents(s, a, b) ==
    Join([i \in 1..((IF b < Len(Components(s)) THEN b ELSE Len(Components(s)))
                      - a + 1)
            |-> Components(s)[a + i - 1]])

\* C11: extract_year_week_version(v) returns components 3-4 of v exactly
\* when the first dot-component of v is the string "0", and components 1-2
\* for every other v, also when the first component only begins with 0.
C11_YearWeekByFirstComponent ==
    fn = "extract_year_week_version"
    => result.value = IF Components(version)[1] = <<"0">>
                      THEN JoinedComponents(version, 3, 4)
                      ELSE JoinedComponents(version, 1, 2)

\* C12: for every v the validator accepts, extract_release_branch_version(v)
\* has exactly 4 dot-components: the first three of v, then the literal 01.
C12_ReleaseBranchVersionShape ==
    (fn = "extract_release_branch_version" /\ VersionRe(version))
    => /\ Len(Components(result.value)) = 4
       /\ \A i \in 1..3 : Components(result.value)[i] = Components(version)[i]
       /\ Components(result.value)[4] = <<"0", "1">>

\* C13: extract_major_version(v) is the first 4 dot-components of v joined
\* by dots: a 5th component is dropped, a string of at most 4 components is
\* returned unchanged, and applying the function to its result changes
\* nothing.
C13_MajorVersion ==
    fn = "extract_major_version"
    => /\ result.value = JoinedComponents(version, 1, 4)
       /\ (Len(Components(version)) >= 5
            => /\ Len(Components(result.value)) = 4
               /\ result.value
                    = SubSeq(version, 1, Len(result.value))
               /\ version[Len(result.value) + 1] = ".")
       /\ (Len(Components(version)) <= 4 => result.value = version)
       /\ extract_major_version(result.value) = result.value

\* a 5-component version has lost its 5th component
C13_Witness ==
    /\ fn = "extract_major_version"
    /\ WellFormed(version)
    /\ Len(Components(version)) = 5
    /\ Len(Components(result.value)) = 4
    /\ result.value # version

-----------------------------------------------------------------------------
(* Properties of the update command, checked under SpecUpdate *)

\* the rebase onto the base succeeded
PullSucceeded ==
    \E i \in 1..Len(gitlog) :
        /\ gitlog[i].cmd = "pull -r mainline"
        /\ \A j \in 1..Len(gitlog) : gitlog[j].cmd # "rebase --abort"

\* the commands after the two read-only probes, with store followed by
\* reset --hard read as git stash
UpdateScript(stashed, pulled, pushed) ==
    (IF stashed THEN <<Git("stash store", <<"ref">>),
                       Git("reset --hard", <<>>)>> ELSE <<>>)
    \o <<Git("pull -r mainline", pulled), Git("push -f origin", pushed)>>
    \o (IF stashed THEN <<Git("stash pop", <<>>)>> ELSE <<>>)

\* C19: a run of update on branch B with base X whose rebase succeeds
\* executes, in order: stash (when there are changes), git pull -r mainline
\* X, git push -f origin B, stash pop (when something was stashed).
C19_UpdatePushesCurrentBranch ==
    (gpc = "done" /\ gout = "exit 0" /\ PullSucceeded)
    => SubSeq(gitlog, 3, Len(gitlog))
         = UpdateScript(gloc.stash_ref # "", gloc.base_branch,
                        gloc.current_branch)

-----------------------------------------------------------------------------
(* Properties of update_branch, checked under SpecSync *)

Patches == {i \in 1..Len(reqs) : reqs[i].method = "PATCH"}

\* C20: update_branch(name, sha) on an existing branch asks the host to move
\* the ref to sha whether or not sha descends from the ref's commit, so that
\* once the host has answered, the branch of the fork points at sha, the
\* head of mainline's release branch in the sync step of start releasefix.
C20_ForceUpdatesRef ==
    (/\ op \in {"update_branch", "releasefix_sync"}
     /\ pc = "done"
     /\ Patches # {}
     /\ args.name \in refs0
     /\ \A i \in Patches : reqs[i].status \notin HttpErrors)
    => /\ outcome = Ok
       /\ refs[args.name] = args.base_name

-----------------------------------------------------------------------------
(* Properties of the start of a command, checked under SpecArgs *)

HttpRequests == {i \in 1..Len(trace) : trace[i].kind = "http"}

\* letters, a dash, digits, and then anything
WellFormedTicket(s) ==
    /\ s # None
    /\ \E d \in 1..Len(s) :
         /\ s[d] = "-"
         /\ d > 1
         /\ \A k \in 1..(d - 1) : s[k] \in Letters
         /\ d < Len(s)
         /\ s[d + 1] \in Digits

\* what was typed is there and is not of the required form
MalformedArgument ==
    \/ cloc.typed.version # None /\ ~WellFormed(cloc.typed.version)
    \/ cloc.typed.ticket # None /\ ~WellFormedTicket(cloc.typed.ticket)

\* C18: a command invoked with a malformed version or ticket argument, or
\* with a configuration that lacks a required key, ends with an error and
\* has issued no HTTP request.
C18_ErrorBeforeAnyRequest ==
    (MalformedArgument \/ command.config # ConfigKeys)
    => /\ HttpRequests = {}
       /\ cpc \notin {"body", "running"}
       /\ cpc = "done" => exit = "nonzero"

-----------------------------------------------------------------------------
(* Properties of start release and qa, checked under SpecCli *)

IsCall(e) == e.kind # "sys.exit"

\* the calls made so far, in order, without the entries of sys.exit
Whats ==
    LET calls == SelectSeq(trace, IsCall)
    IN  [k \in 1..Len(calls) |-> calls[k].what]

\* passes of the linking loop of the given command so far
Links(loop) ==
    {k \in 1..Len(trace) :
        trace[k].what = "link_issues" /\ trace[k].loop = loop}

\* no call to git, the tracker or the chat service failed and the host
\* answered no request with 401 or 500
NothingFailed == cloc.faults = 0 /\ ~cloc.http_error

CliBranch == ReleaseArgs(CliVersion).release_branch

\* the steps of qa inside the try statement: the changelog, and the
\* pre-release unless there is a ticket to link
StepsOfFirstQa ==
    <<"on_branch", "log">>
    \o (IF Links("qa") = {}
        THEN <<"on_branch exit", "create_pre_release">>
        ELSE <<"link_issues", "e.message">>)

\* the steps of start release from the second try statement on, when no
\* call to git, the tracker, the chat service or the host fails:
\* changelog, audit, release ticket, then the channel and qa unless there
\* is a ticket to link, and the pre-release of the finally clause
StepsOfFreshCreation ==
    <<"fetch mainline", "checkout", "log", "audit_changes", "create_issue">>
    \o (IF Links("start release") = {}
        THEN (IF command.slack THEN <<"create_release_channel">> ELSE <<>>)
             \o StepsOfFirstQa
        ELSE <<"link_issues", "e.message">>)
    \o <<"Branch created", "on_branch", "log", "on_branch exit",
         "create_pre_release">>

\* C14: when create_release_branch reports DuplicateBranchError, start
\* release does not end there: it fetches mainline, checks the branch out,
\* looks the branch up, and then takes the steps of a fresh creation
\* (changelog, audit, release ticket, pre-release).
C14_DuplicateBranchContinues ==
    (command.name = "start release" /\ cpc = "done" /\ NothingFailed)
    => Whats = <<"create_release_branch">>
               \o (IF cloc.duplicate
                   THEN <<"fetch mainline", "checkout", "get_branch">>
                   ELSE <<>>)
               \o StepsOfFreshCreation

C14_Witness ==
    /\ command.name = "start release"
    /\ cpc = "done"
    /\ NothingFailed
    /\ cloc.duplicate
    /\ CliVersion \in Tags(releases)
    /\ \E k \in 1..Len(trace) : trace[k].what = "create_issue"

FailedLinks ==
    {k \in 1..Len(trace) :
        trace[k].what = "link_issues" /\ trace[k].outcome # "ok"}

\* C15: in the linking loops of start release and qa a failed link is
\* skipped: every remaining ticket id of that loop is attempted and the
\* command goes on to create the pre-release.
C15_FailedLinkIsSkipped ==
    cpc = "done"
    => \A k \in FailedLinks :
         /\ \A j \in (trace[k].i + 1)..trace[k].of :
              \E m \in Links(trace[k].loop) : m > k /\ trace[m].i = j
         /\ \E m \in (k + 1)..Len(trace) :
              trace[m].what = "create_pre_release"

SlackFailed ==
    \E k \in 1..Len(trace) :
        trace[k].what = "create_release_channel" /\ trace[k].outcome # "ok"

\* C16: a run of start release in which create_release_channel raises, and
\* nothing else fails, ends with exit status zero, the release branch on
\* the remote and the pre-release created.
C16_ChannelFailureStillSucceeds ==
    (/\ command.name = "start release"
     /\ cpc = "done"
     /\ SlackFailed
     /\ cloc.faults = 1
     /\ ~cloc.http_error)
    => /\ exit = "zero"
       /\ refs[CliBranch] # NoSha
       /\ CliVersion \in Tags(releases)

C16_Witness ==
    /\ command.name = "start release"
    /\ cpc = "done"
    /\ SlackFailed
    /\ exit = "zero"
    /\ ~cloc.duplicate
    /\ CliVersion \in Tags(releases)

\* C17: a run in which every external call succeeds, so that the branch is
\* there and the pre-release was created, ends with exit status zero, and a
\* run that ends on an unhandled error ends with a non-zero status.
C17_ExitStatus ==
    cpc = "done"
    => /\ (/\ NothingFailed
           /\ refs[CliBranch] # NoSha
           /\ CliVersion \in Tags(releases))
          => exit = "zero"
       /\ cloc.uncaught => exit = "nonzero"

-----------------------------------------------------------------------------
(* Further properties of the GitHubAPI client, checked under Spec *)

\* C22: create_branch issues the POST to git/refs only when its lookup of
\* the name was answered "not found"; when that lookup fails with 401 or
\* 500 no ref is created.
C22_PostOnlyWhenAbsent ==
    (op = "create_branch" /\ reqs # <<>>)
    => /\ Posts("git/refs") # {} => reqs[1].status = 404
       /\ reqs[1].status \in HttpErrors => Existing = refs0

\* C23: create_branch(name, base) with from_sha false, when the lookup of
\* the base is not answered with the ref, ends with an error other than
\* DuplicateBranchError and issues no POST to git/refs; a POST is issued
\* only after the base was looked up, and the sha it sends is the one that
\* lookup returned.
C23_BaseResolvedBeforePost ==
    (op = "create_branch" /\ ~args.from_sha)
    => /\ (Len(reqs) >= 2 /\ reqs[2].status # 200)
          => /\ pc = "done"
             /\ outcome.type = "GitHubAPIError"
             /\ outcome # DuplicateBranchError
             /\ Posts("git/refs") = {}
       /\ \A i \in Posts("git/refs") :
            /\ i = 3
            /\ reqs[2].method = "GET"
            /\ reqs[2].path = "git/refs/heads"
            /\ reqs[2].arg = args.base_name
            /\ reqs[2].status = 200
            /\ loc.base_sha = reqs[2].body[1]

C23_Witness ==
    /\ op = "create_branch"
    /\ ~args.from_sha
    /\ pc = "done"
    /\ Len(reqs) = 2
    /\ reqs[1].status = 404
    /\ reqs[2].status = 404
    /\ outcome.type = "GitHubAPIError"

\* the lookups of tag t that the call made before its request number i and
\* that were answered "not found"
LookupsBefore(i, t) ==
    {j \in Gets("releases/tags") :
        j < i /\ reqs[j].arg = t /\ reqs[j].status = 404}

\* C29: the remote holds at most one release record per tag name, and every
\* POST to releases by create_pre_release, create_release or release is
\* preceded, in the same call, by a lookup of the tag that found no record.
C29_OneRecordPerTag ==
    /\ \A i, j \in 1..Len(releases) :
         releases[i].tag_name = releases[j].tag_name => i = j
    /\ \A i \in Posts("releases") : LookupsBefore(i, reqs[i].arg) # {}

-----------------------------------------------------------------------------
(* Further properties of on_branch, checked under SpecGit *)

Pops == {i \in 1..Len(gitlog) : gitlog[i].cmd = "stash pop"}

Stored == \E i \in 1..Len(gitlog) : gitlog[i].cmd = "stash store"

\* the commands of a call whose block returns, in order
StepsOfOnBranch ==
    <<Git("rev-parse", "HEAD"), Git("stash create", "")>>
    \o (IF Stored
        THEN <<Git("stash store", gloc.stash_ref), Git("reset --hard", "")>>
        ELSE <<>>)
    \o <<Git("checkout", gloc.name), Git("pull", gloc.name), Yield,
         Git("checkout", gloc.org_branch)>>
    \o (IF Stored THEN <<Git("stash pop", "")>> ELSE <<>>)

\* C30: on_branch pops the stash only in a call in which stash create
\* returned a ref and it stored it; when the block returns it pops exactly
\* once in that case and not at all otherwise; the entry on top of the
\* stash when the pop is issued is the one the call stored, so that the
\* entries that were there before stay; the commands are issued in the
\* order stash, checkout of the target, pull, block, checkout of the
\* original branch, pop.
C30_StashBalanced ==
    /\ Cardinality(Pops) <= 1
    /\ Pops # {} => Stored /\ gloc.stash_ref # ""
    /\ Stored <=> (gloc.stash_ref # "" /\ gpc # "stash_store")
    /\ gpc = "stash_pop" => stash # <<>> /\ stash[1] = gloc.stash_ref
    /\ (gpc = "done" /\ gout = "return") => gitlog = StepsOfOnBranch

C30_Witness ==
    /\ gpc = "done"
    /\ gout = "return"
    /\ Pops # {}
    /\ stash = <<"earlier">>
    /\ dirty

-----------------------------------------------------------------------------
(* Further properties of the update command, checked under SpecUpdate *)

PullFailed ==
    \E i \in 1..Len(gitlog) : gitlog[i].cmd = "rebase --abort"

\* the commands after the two read-only probes when the rebase fails
AbortScript(stashed, pulled, current) ==
    (IF stashed THEN <<Git("stash store", <<"ref">>),
                       Git("reset --hard", <<>>)>> ELSE <<>>)
    \o <<Git("pull -r mainline", pulled), Git("rebase --abort", <<>>),
         Git("checkout", current)>>
    \o (IF stashed THEN <<Git("stash pop", <<>>)>> ELSE <<>>)

\* the branch read by rev-parse has no base of its own
NoMappedBase ==
    /\ gloc.current_branch # <<>>
    /\ branch_type(gloc.current_branch) \notin {<<"hotfix">>, <<"feature">>}

\* C26: when git pull -r mainline <base> fails, update aborts the rebase,
\* checks out the branch that was current at the start, pushes nothing and
\* pops the stash if it stored one; when the branch is neither hotfix nor
\* feature and --base is absent it exits with an error before any stash,
\* pull or push.
C26_UpdateFailurePaths ==
    /\ (gpc = "done" /\ PullFailed)
       => SubSeq(gitlog, 3, Len(gitlog))
            = AbortScript(gloc.stash_ref # "", gloc.base_branch,
                          gloc.current_branch)
    /\ (gpc = "done" /\ NoMappedBase /\ gloc.base = NoBase)
       => /\ gout = "exit 1"
          /\ gitlog = <<Git("rev-parse", <<"HEAD">>)>>
    /\ gout = "exit 1" => NoMappedBase /\ gloc.base = NoBase

C26_Witness ==
    /\ gpc = "done"
    /\ PullFailed
    /\ gloc.stash_ref # ""
    /\ gitlog[Len(gitlog)] = Git("stash pop", <<>>)
    /\ gloc.base = NoBase

-----------------------------------------------------------------------------
(* Properties of the sync command, checked under SpecSyncCommand *)

\* the commands of the try statement of a run that syncs both branches
SyncScript ==
    <<Git("rev-parse", "HEAD"),
      Git("checkout", "master"), Git("pull mainline", "master"),
      Git("push origin", "master"),
      Git("checkout", "develop"), Git("pull mainline", "develop"),
      Git("push origin", "develop"),
      Git("checkout", gloc.org_branch)>>

\* the commands issued so far inside the try statement
SyncTried ==
    SelectSeq(gitlog,
              LAMBDA g : g.cmd \notin {"stash create", "stash store",
                                       "reset --hard", "stash pop"})

-----------------------------------------------------------------------------
(* Further properties of the version validators, checked under SpecVersion *)

\* C27: validate_version_arg_or_latest_prerelease, called without a version
\* when the remote has no pre-release, ends with the argument error
\* 'Version number is required'.
C27_NoVersionNoPrerelease ==
    (/\ fn = "validate_version_arg_or_latest_prerelease"
     /\ varg = None
     /\ ~vlatest.found)
    => /\ result.type = "BadParameter"
       /\ result.msg = "Version number is required"

-----------------------------------------------------------------------------
(* Further properties of start release, checked under SpecCli *)

\* the steps of start release between the checkout and its call of qa
StepsBeforeQa ==
    {"log", "audit_changes", "create_issue", "link_issues",
     "create_release_channel"}

\* one of them raised, before qa was entered for the first time
RaisedBeforeQa ==
    \E k \in 1..Len(trace) :
        /\ trace[k].what \in StepsBeforeQa
        /\ trace[k].outcome # "ok"
        /\ \A j \in 1..k : trace[j].what # "on_branch"

PreReleaseCalls ==
    {k \in 1..Len(trace) : trace[k].what = "create_pre_release"}

\* C28: when a step of start release between the checkout and the
\* pre-release step raises, the run exits with an error and creates no
\* pre-release; create_pre_release is called at most once in a run.
C28_NoPreReleaseAfterFailure ==
    (command.name = "start release" /\ cpc = "done")
    => /\ RaisedBeforeQa
          => /\ exit = "nonzero"
             /\ PreReleaseCalls = {}
             /\ CliVersion \notin Tags(releases)
       /\ Cardinality(PreReleaseCalls) <= 1

-----------------------------------------------------------------------------
(* Properties of the migration checks, checked under SpecMigrations *)

\* the smell patterns and the reason each stands for
Smells == {"NOT NULL", "DROP COLUMN", "ADD COLUMN ... DEFAULT"}

Matches(p, sql) ==
    CASE p = "NOT NULL" -> not_null_finder(sql)
      [] p = "DROP COLUMN" -> drop_col_finder(sql)
      [] p = "ADD COLUMN ... DEFAULT" -> add_with_default_finder(sql)

ReasonOf(p) ==
    CASE p = "NOT NULL" -> <<"- contains NOT NULL columns">>
      [] p = "DROP COLUMN" -> <<"- drops columns">>
      [] p = "ADD COLUMN ... DEFAULT" -> <<"- adds a new column with DEFAULT">>

Matching(sql) == {p \in Smells : Matches(p, sql)}

\* C21: check_problem_sql flags a migration exactly when its SQL matches at
\* least one of the three smell patterns; the reasons listed for it are
\* those of the matching patterns, each once; a migration whose SQL matches
\* none has no entry in the problem map.
C21_FlaggedIffSmell ==
    fn = "check_problem_sql"
    => LET problems == result.value.problem_migrations
       IN  /\ DOMAIN problems \subseteq DOMAIN varg
           /\ \A m \in DOMAIN varg :
                /\ m \in DOMAIN problems <=> Matching(varg[m]) # {}
                /\ m \in DOMAIN problems
                   => /\ {problems[m][i] : i \in 1..Len(problems[m])}
                           = {ReasonOf(p) : p \in Matching(varg[m])}
                      /\ Len(problems[m]) = Cardinality(Matching(varg[m]))

C21_Witness ==
    /\ fn = "check_problem_sql"
    /\ DOMAIN varg = {"0001_a", "0002_b"}
    /\ Cardinality(Matching(varg["0001_a"])) = 3
    /\ varg["0002_b"] = <<>>
    /\ DOMAIN result.value.problem_migrations = {"0001_a"}
    /\ Len(result.value.problem_migrations["0001_a"]) = 3

-----------------------------------------------------------------------------
(* Properties of the changelog, checked under SpecChangelog *)

\* the lines of a text, none for the empty text
RECURSIVE LinesOf(_)
LinesOf(s) ==
    IF s = <<>> THEN <<>>
    ELSE IF \A i \in 1..Len(s) : s[i] # NL THEN <<s>>
    ELSE LET i == CHOOSE j \in 1..Len(s) :
                      s[j] = NL /\ \A k \in 1..(j - 1) : s[k] # NL
         IN  <<SubSeq(s, 1, i - 1)>> \o LinesOf(SubSeq(s, i + 1, Len(s)))

\* the (ticket id, title) pairs matched in a log
Pairs(log) ==
    {<<log[i].id, log[i].title>> : i \in {j \in 1..Len(log) : log[j].merge}}

\* C24: the changelog has no bullet line twice, and two logs in which the
\* same set of (ticket id, title) pairs is matched, however ordered and
\* repeated, give the same string.
C24_ChangelogOfSet ==
    fn = "changelog"
    => /\ LET lines == LinesOf(result.value)
          IN  \A i, j \in 1..Len(lines) : lines[i] = lines[j] => i = j
       /\ \A other \in Logs :
            Pairs(other) = Pairs(varg) => changelog(other) = result.value

C24_Witness ==
    /\ fn = "changelog"
    /\ Len(varg) = 3
    /\ varg[1] = varg[3]
    /\ varg[1].merge /\ varg[2].merge
    /\ Bullet(varg[1]) # Bullet(varg[2])
    /\ Before(Bullet(varg[2]), Bullet(varg[1]))
    /\ Len(LinesOf(result.value)) = 2

====
